---- MODULE Spec2Model ----
(***************************************************************************)
(* A model of ghreq (src/src/ghreq/__init__.py): Client.request(), its     *)
(* retry loop, and the Retrier / RetryConfig backoff engine.               *)
(*                                                                         *)
(* Units.  Times and durations are integers in milliseconds (the code uses *)
(* float seconds).  backoff_base and random() are fixed-point numbers in   *)
(* thousandths (1250 is 1.25); products are truncated to the unit.         *)
(* An optional value (None or v) is the sequence <<>> or <<v>>.            *)
(* A header value and a body are sequences of characters resp. words.      *)
(***************************************************************************)
EXTENDS Integers, Sequences, FiniteSets, TLC

VARIABLES
    config,         \* Client.retry_config (a RetryConfig)
    server,         \* the outcomes session.send may produce for this client
    clock,          \* the wall clock read by nowdt() and time.time()
    last_mutation,  \* Client.last_mutation
    pc,             \* position of the caller inside Client.request()
    method,         \* the (upper-cased) method of the current request
    attempts,       \* Retrier.attempts of the current request
    stop_time,      \* Retrier.stop_time of the current request
    outcome,        \* what the last session.send + raise_for_status produced
    backoffv,       \* the local `backoff` of the last Retrier.__call__
    decision,       \* the return value of the last Retrier.__call__ (`delay`)
    sends,          \* number of session.send calls made by the current request
    statuses,       \* status of each of them in order (0: an exception)
    sleeps,         \* arguments of the retry time.sleep calls of the request
    pacing,         \* argument of the pacing time.sleep of the request (0: none)
    result,         \* how the current request ended
    budget,         \* number of request() calls the caller has yet to make
    callers,        \* threads calling request() on the client at the same
                    \* time: where each is in request(), when its pacing
                    \* sleep ends, how many calls it made, when it last sent,
                    \* its Retrier, the failed sends of its current call and
                    \* when its retry sleep ends
    options,        \* the raw and stream arguments the caller passes
    returned,       \* what request() returned once its loop was left by
                    \* `break` (its return value, or the error of r.json())
    pager,          \* a paginate() generator being consumed: its arguments,
                    \* its locals path and params, the pages the server
                    \* holds, the get() calls made, the values yielded and
                    \* the retry sleeps of each get() that has ended
    sent_at         \* the time at which each session.send of the current
                    \* request was called, in order

vars == <<config, server, clock, last_mutation, pc, method, attempts,
          stop_time, outcome, backoffv, decision, sends, statuses, sleeps,
          pacing, result, budget, callers, pager, options,
          returned, sent_at>>

----------------------------------------------------------------------------
(* Bounds of the exploration *)

\* largest `retries` among the configurations explored against every outcome
MaxRetries == 2

\* largest `retries` among the configurations explored against a server
\* that only answers 200, 500 or fails at the transport level
MaxRetriesFlaky == 5

\* number of request() calls made on one client, where several are made
MaxRequests == 3

\* number of request() calls each of these threads makes
MaxCalls == 2

\* the time up to which the threads are followed
MaxClock == 2100

----------------------------------------------------------------------------
(* Program constants *)

\* every method taken for a mutating one
MUTATING_METHODSWithGet == {"GET", "POST", "PATCH", "PUT", "DELETE"}

MUTATING_METHODS == {"POST", "PATCH", "PUT", "DELETE"}

\* Client.__init__: mutation_delay: float = 1.0
mutation_delay == 1000

None == <<>>

Some(v) == <<v>>

Min(a, b) == IF a <= b THEN a ELSE b

Max(a, b) == IF a >= b THEN a ELSE b

\* fixed-point product of a quantity and a number in thousandths
FixMul(a, b) == (a * b) \div 1000

RECURSIVE Pow(_, _)
\* base ** n, base and result in thousandths
Pow(base, n) == IF n = 0 THEN 1000 ELSE FixMul(Pow(base, n - 1), base)

----------------------------------------------------------------------------
(* RetryConfig *)

\* range(500, 600)
DefaultRetryStatuses == 500..599

RetryConfig(retries, factor, base, jitter, bmax, total_wait, codes) ==
    [retries |-> retries, backoff_factor |-> factor, backoff_base |-> base,
     backoff_jitter |-> jitter, backoff_max |-> bmax,
     total_wait |-> total_wait, retry_statuses |-> codes]

\* the values random() may return, in thousandths
RandomDraws == {0, 500, 999}

\* backoff without the special case of the first retry
backoffFirstAsRest(cfg, n, rnd) ==
    LET b0 == FixMul(cfg.backoff_factor, Pow(cfg.backoff_base, n - 1))
        b  == IF cfg.backoff_jitter > 0
              THEN b0 + FixMul(rnd, cfg.backoff_jitter)
              ELSE b0
    IN  Max(0, Min(b, cfg.backoff_max))

\* backoff with the exponent one too high (base ** attempts)
backoffExponentOff(cfg, n, rnd) ==
    IF n < 2
    THEN FixMul(cfg.backoff_factor, 100)
    ELSE LET b0 == FixMul(cfg.backoff_factor, Pow(cfg.backoff_base, n))
             b  == IF cfg.backoff_jitter > 0
                   THEN b0 + FixMul(rnd, cfg.backoff_jitter)
                   ELSE b0
         IN  Max(0, Min(b, cfg.backoff_max))

\* RetryConfig.backoff(attempts); rnd is the value of random()
backoff(cfg, n, rnd) ==
    IF n < 2
    THEN FixMul(cfg.backoff_factor, 100)
    ELSE LET b0 == FixMul(cfg.backoff_factor, Pow(cfg.backoff_base, n - 1))
             b  == IF cfg.backoff_jitter > 0
                   THEN b0 + FixMul(rnd, cfg.backoff_jitter)
                   ELSE b0
         IN  Max(0, Min(b, cfg.backoff_max))

----------------------------------------------------------------------------
(* Responses: requests.Response as far as the Retrier reads it *)

\* a CaseInsensitiveDict with no entry
NoHeaders == [h \in {} |-> <<>>]

Digits == {"0", "1", "2", "3", "4", "5", "6", "7", "8", "9"}

DigitVal(c) ==
    CASE c = "0" -> 0 [] c = "1" -> 1 [] c = "2" -> 2 [] c = "3" -> 3
      [] c = "4" -> 4 [] c = "5" -> 5 [] c = "6" -> 6 [] c = "7" -> 7
      [] c = "8" -> 8 [] c = "9" -> 9

RECURSIVE DigitsVal(_)
\* the number written by a non-empty sequence of decimal digits
DigitsVal(ds) ==
    IF ds = <<>> THEN 0
    ELSE 10 * DigitsVal(SubSeq(ds, 1, Len(ds) - 1)) + DigitVal(ds[Len(ds)])

RECURSIVE Strip(_)
\* str.strip(): leading and trailing blanks removed
Strip(s) ==
    IF s = <<>> THEN s
    ELSE IF s[1] = " " THEN Strip(Tail(s))
    ELSE IF s[Len(s)] = " " THEN Strip(SubSeq(s, 1, Len(s) - 1))
    ELSE s

\* int(s): [ok |-> TRUE, val |-> n], or ok = FALSE where int raises ValueError
ParseInt(s) ==
    LET t      == Strip(s)
        signed == t # <<>> /\ t[1] \in {"+", "-"}
        ds     == IF signed THEN Tail(t) ELSE t
        isnum  == ds # <<>> /\ \A i \in 1..Len(ds) : ds[i] \in Digits
    IN  IF isnum
        THEN [ok |-> TRUE,
              val |-> IF signed /\ t[1] = "-" THEN 0 - DigitsVal(ds)
                      ELSE DigitsVal(ds)]
        ELSE [ok |-> FALSE, val |-> 0]

\* needle in text
IsSubstring(needle, text) ==
    \E i \in 1..(Len(text) - Len(needle) + 1) :
        SubSeq(text, i, i + Len(needle) - 1) = needle

\* "rate limit"
RateLimitText == <<"r", "a", "t", "e", " ", "l", "i", "m", "i", "t">>

\* response.headers.get(name)
HeaderGet(headers, name) ==
    IF name \in DOMAIN headers THEN Some(headers[name]) ELSE None

\* what session.send produced: kind "response" (any status), or the exception
\* raised, "RequestException" (no response attached) or "InvalidSchema"
\* (a RequestException that is also a ValueError)
Response(status, headers, text) ==
    [kind |-> "response", status_code |-> status, headers |-> headers,
     text |-> text]

SendError(kind) ==
    [kind |-> kind, status_code |-> 0, headers |-> NoHeaders, text |-> <<>>]

NoOutcome == SendError("none")

\* raise_for_status raising for every status but 1xx
RaisesForStatusFrom200(r) == r.status_code >= 200 /\ r.status_code < 600

\* Response.raise_for_status() raises HTTPError
RaisesForStatus(r) == r.status_code >= 400 /\ r.status_code < 600

----------------------------------------------------------------------------
(* Retrier *)

\* total_wait = None taken for no time at all
Retrier_post_initNoneIsZero(cfg, now) ==
    IF cfg.total_wait # None THEN Some(now + cfg.total_wait[1]) ELSE Some(now)

\* Retrier.__post_init__: the stop_time of a Retrier created at `now`
Retrier_post_init(cfg, now) ==
    IF cfg.total_wait # None THEN Some(now + cfg.total_wait[1]) ELSE None

\* the retry count compared one too late
RetriesExhaustedLate(cfg, att) == att > cfg.retries + 1

\* Retrier.__call__, "Retries exhausted" (attempts already incremented)
RetriesExhausted(cfg, att) == att > cfg.retries

\* the deadline test with > for >=
PastStopTimeStrict(stop, now) == stop # None /\ now > stop[1]

\* Retrier.__call__, "Maximum total retry wait time exceeded"
PastStopTime(stop, now) == stop # None /\ now >= stop[1]

\* a Retry-After that is not an integer taken for a minute
RetryAfterDelayBadIsMinute(headers) ==
    LET p == ParseInt(headers["retry-after"])
    IN  IF p.ok THEN (p.val + 1) * 1000 ELSE 60000

\* the Retry-After branch without the added second
RetryAfterDelayNoGrace(headers) ==
    LET p == ParseInt(headers["retry-after"])
    IN  IF p.ok THEN p.val * 1000 ELSE 0

\* Retrier.__call__, the Retry-After branch of a 403
RetryAfterDelay(headers) ==
    LET p == ParseInt(headers["retry-after"])
    IN  IF p.ok THEN (p.val + 1) * 1000 ELSE 0

\* a missing or malformed x-ratelimit-reset taken for a reset at time 0
PrimaryRateLimitDelayBadIsEpoch(headers, now) ==
    LET present == "x-ratelimit-reset" \in DOMAIN headers
        p       == IF present THEN ParseInt(headers["x-ratelimit-reset"])
                   ELSE [ok |-> FALSE, val |-> 0]
    IN  IF p.ok THEN p.val * 1000 - now + 1000 ELSE 0 - now + 1000

\* the primary rate limit branch without the added second
PrimaryRateLimitDelayNoGrace(headers, now) ==
    LET present == "x-ratelimit-reset" \in DOMAIN headers
        p       == IF present THEN ParseInt(headers["x-ratelimit-reset"])
                   ELSE [ok |-> FALSE, val |-> 0]
    IN  IF p.ok THEN p.val * 1000 - now ELSE 0

\* Retrier.__call__, the primary rate limit branch of a 403
PrimaryRateLimitDelay(headers, now) ==
    LET present == "x-ratelimit-reset" \in DOMAIN headers
        p       == IF present THEN ParseInt(headers["x-ratelimit-reset"])
                   ELSE [ok |-> FALSE, val |-> 0]
    IN  IF p.ok THEN p.val * 1000 - now + 1000 ELSE 0

\* Delay403 looking at the primary rate limit before Retry-After
Delay403ResetFirst(cfg, r, b, now) ==
    IF /\ IsSubstring(RateLimitText, r.text)
       /\ HeaderGet(r.headers, "x-ratelimit-remaining") = Some(<<"0">>)
    THEN Some(PrimaryRateLimitDelay(r.headers, now))
    ELSE IF "retry-after" \in DOMAIN r.headers
    THEN Some(RetryAfterDelay(r.headers))
    ELSE IF IsSubstring(RateLimitText, r.text)
    THEN Some(b)
    ELSE IF r.status_code \in cfg.retry_statuses
    THEN Some(b)
    ELSE None

\* Delay403 taking every "rate limit" 403 for a primary rate limit
Delay403AlwaysPrimary(cfg, r, b, now) ==
    IF "retry-after" \in DOMAIN r.headers
    THEN Some(RetryAfterDelay(r.headers))
    ELSE IF IsSubstring(RateLimitText, r.text)
    THEN Some(PrimaryRateLimitDelay(r.headers, now))
    ELSE IF r.status_code \in cfg.retry_statuses
    THEN Some(b)
    ELSE None

\* Delay403 retrying every 403, whatever retry_statuses holds
Delay403RetryAll(cfg, r, b, now) ==
    IF "retry-after" \in DOMAIN r.headers
    THEN Some(RetryAfterDelay(r.headers))
    ELSE IF IsSubstring(RateLimitText, r.text)
    THEN IF HeaderGet(r.headers, "x-ratelimit-remaining") = Some(<<"0">>)
         THEN Some(PrimaryRateLimitDelay(r.headers, now))
         ELSE Some(b)
    ELSE Some(b)

\* Retrier.__call__, the classification of a 403 before the backoff floor:
\* None where the code returns None, else the delay
Delay403(cfg, r, b, now) ==
    IF "retry-after" \in DOMAIN r.headers
    THEN Some(RetryAfterDelay(r.headers))
    ELSE IF IsSubstring(RateLimitText, r.text)
    THEN IF HeaderGet(r.headers, "x-ratelimit-remaining") = Some(<<"0">>)
         THEN Some(PrimaryRateLimitDelay(r.headers, now))
         ELSE Some(b)
    ELSE IF r.status_code \in cfg.retry_statuses
    THEN Some(b)
    ELSE None

\* the 403 branch without its last line
Floor403Off(delay, b) == delay

\* Retrier.__call__, delay = max(delay, backoff) at the end of the 403 branch
Floor403(delay, b) == Max(delay, b)

\* Classify reading Retry-After and the rate limit of any status
ClassifyHeadersAnyStatus(cfg, r, b, now) ==
    IF r = None
    THEN Some(b)
    ELSE IF r[1].status_code = 403 \/ "retry-after" \in DOMAIN r[1].headers
    THEN LET d == Delay403(cfg, r[1], b, now)
         IN  IF d = None THEN None ELSE Some(Floor403(d[1], b))
    ELSE IF r[1].status_code \in cfg.retry_statuses
    THEN Some(b)
    ELSE None

\* Classify retrying every response that is not a 403
ClassifyRetryAll(cfg, r, b, now) ==
    IF r = None
    THEN Some(b)
    ELSE IF r[1].status_code = 403
    THEN LET d == Delay403(cfg, r[1], b, now)
         IN  IF d = None THEN None ELSE Some(Floor403(d[1], b))
    ELSE Some(b)

\* Retrier.__call__, the classification of the outcome: None where the code
\* returns None, else the value of `delay` before the stop_time limit;
\* r is the response, None for an exception without response
Classify(cfg, r, b, now) ==
    IF r = None
    THEN Some(b)
    ELSE IF r[1].status_code = 403
    THEN LET d == Delay403(cfg, r[1], b, now)
         IN  IF d = None THEN None ELSE Some(Floor403(d[1], b))
    ELSE IF r[1].status_code \in cfg.retry_statuses
    THEN Some(b)
    ELSE None

\* the delay allowed to end a second after stop_time
LimitToStopTimeGrace(stop, now, delay) ==
    LET d == IF stop # None THEN Min(stop[1] - now + 1000, delay) ELSE delay
    IN  Max(d, 0)

\* the delay returned without the limit of the time left
LimitToStopTimeOff(stop, now, delay) == Max(delay, 0)

\* Retrier.__call__, the last three lines: the delay limited to the time left
LimitToStopTime(stop, now, delay) ==
    LET d == IF stop # None THEN Min(stop[1] - now, delay) ELSE delay
    IN  Max(d, 0)

\* Retrier.__call__(response) with self.attempts already incremented to att:
\* the value returned (None or a delay) and the local `backoff` (None when
\* the call returns before computing it)
Retrier_call(cfg, att, stop, now, r, rnd) ==
    IF RetriesExhausted(cfg, att) \/ PastStopTime(stop, now)
    THEN [delay |-> None, backoff |-> None]
    ELSE LET b == backoff(cfg, att, rnd)
             c == Classify(cfg, r, b, now)
         IN  [delay   |-> IF c = None THEN None
                          ELSE Some(LimitToStopTime(stop, now, c[1])),
              backoff |-> Some(b)]

----------------------------------------------------------------------------
(* PrettyHTTPError *)

\* a JSON integer: digits without a leading zero
JsonInt(t) ==
    /\ t # <<>>
    /\ \A i \in 1..Len(t) : t[i] \in Digits
    /\ (Len(t) = 1 \/ t[1] # "0")

RECURSIVE SplitCommas(_)
\* the pieces of s between its commas
SplitCommas(s) ==
    IF \A i \in 1..Len(s) : s[i] # ","
    THEN <<s>>
    ELSE LET k == CHOOSE i \in 1..Len(s) :
                      s[i] = "," /\ \A j \in 1..(i - 1) : s[j] # ","
         IN  <<SubSeq(s, 1, k - 1)>> \o SplitCommas(SubSeq(s, k + 1, Len(s)))

\* response.json() for the documents the model's servers send: an integer,
\* an array of integers or an empty object; ok = FALSE where it raises
\* ValueError
JsonLoads(text) ==
    LET t      == Strip(text)
        inner  == IF Len(t) >= 2 THEN Strip(SubSeq(t, 2, Len(t) - 1)) ELSE <<>>
        pieces == SplitCommas(inner)
        items  == [i \in 1..Len(pieces) |-> Strip(pieces[i])]
    IN  IF JsonInt(t)
        THEN [ok |-> TRUE, type |-> "int", items |-> <<t>>]
        ELSE IF Len(t) >= 2 /\ t[1] = "[" /\ t[Len(t)] = "]"
        THEN IF inner = <<>>
             THEN [ok |-> TRUE, type |-> "array", items |-> <<>>]
             ELSE IF \A i \in 1..Len(items) : JsonInt(items[i])
             THEN [ok |-> TRUE, type |-> "array", items |-> items]
             ELSE [ok |-> FALSE, type |-> "", items |-> <<>>]
        ELSE IF Len(t) >= 2 /\ t[1] = "{" /\ t[Len(t)] = "}" /\ inner = <<>>
        THEN [ok |-> TRUE, type |-> "object", items |-> <<>>]
        ELSE [ok |-> FALSE, type |-> "", items |-> <<>>]

RECURSIVE DumpItems(_)
\* json.dumps(indent=4), the items of an array: one per line, indented by 4
DumpItems(items) ==
    IF items = <<>> THEN <<>>
    ELSE <<"\n", " ", " ", " ", " ">> \o items[1]
         \o (IF Len(items) > 1 THEN <<",">> ELSE <<>>)
         \o DumpItems(Tail(items))

\* json.dumps(resp, indent=4)
JsonDumps(v) ==
    IF v.type = "int" THEN v.items[1]
    ELSE IF v.type = "object" THEN <<"{", "}">>
    ELSE IF v.items = <<>> THEN <<"[", "]">>
    ELSE <<"[">> \o DumpItems(v.items) \o <<"\n", "]">>

\* the body shown as it was received, JSON or not
PrettyHTTPError_strRawBody(r) ==
    LET label == IF 400 <= r.status_code /\ r.status_code < 500
                 THEN "Client Error"
                 ELSE IF 500 <= r.status_code /\ r.status_code < 600
                 THEN "Server Error"
                 ELSE "Unknown Error"
        msg   == <<r.status_code, " ", label, ": ", "{0.reason}",
                   " for URL: ", "{0.url}">>
    IN  IF Strip(r.text) # <<>> THEN msg \o <<"\n\n">> \o r.text ELSE msg

\* PrettyHTTPError.__str__ for the response r, as a sequence of the pieces
\* of the message; {0.reason} and {0.url} stand for those fields of r
PrettyHTTPError_str(r) ==
    LET label == IF 400 <= r.status_code /\ r.status_code < 500
                 THEN "Client Error"
                 ELSE IF 500 <= r.status_code /\ r.status_code < 600
                 THEN "Server Error"
                 ELSE "Unknown Error"
        msg   == <<r.status_code, " ", label, ": ", "{0.reason}",
                   " for URL: ", "{0.url}">>
        resp  == JsonLoads(r.text)
    IN  IF Strip(r.text) # <<>>
        THEN IF resp.ok
             THEN msg \o <<"\n\n">> \o JsonDumps(resp)
             ELSE msg \o <<"\n\n">> \o r.text
        ELSE msg

----------------------------------------------------------------------------
(* The environment: servers, configurations, durations *)

BodyRateLimit == <<"a", " ">> \o RateLimitText \o <<".">>

BodyCapitals == <<"R", "a", "t", "e", " ", "L", "i", "m", "i", "t">>

BodyOther == <<"n", "o">>

\* a JSON body, not in the layout of json.dumps(indent=4)
BodyJson == <<"[", "1", ",", "2", "0", " ", "]">>

\* a body of blanks
BodyBlank == <<" ", " ">>

RetryAfter(v) == "retry-after" :> v

Remaining(v) == "x-ratelimit-remaining" :> v

Reset(v) == "x-ratelimit-reset" :> v

Ok200 == Response(200, NoHeaders, BodyJson)

Err500 == Response(500, NoHeaders, BodyOther)

TransportError == SendError("RequestException")

InvalidSchema == SendError("InvalidSchema")

\* 403 responses carrying a Retry-After header
RetryAfter403s ==
    { Response(403, RetryAfter(<<"7">>), BodyOther),
      Response(403, RetryAfter(<<"0">>), BodyOther),
      Response(403, RetryAfter(<<"1", "h">>), BodyOther),
      Response(403, RetryAfter(<<"7">>) @@ Remaining(<<"0">>)
                    @@ Reset(<<"1", "0">>), BodyRateLimit),
      Response(403, RetryAfter(<<"0">>) @@ Remaining(<<"0">>)
                    @@ Reset(<<"1", "0">>), BodyRateLimit),
      Response(403, RetryAfter(<<"1", "h">>) @@ Remaining(<<"0">>)
                    @@ Reset(<<"1", "0">>), BodyRateLimit) }

\* 403 responses without Retry-After whose body contains "rate limit"
RateLimit403s ==
    { Response(403, Remaining(<<"0">>) @@ Reset(<<"1", "0">>), BodyRateLimit),
      Response(403, Remaining(<<"0">>) @@ Reset(<<"0">>), BodyRateLimit),
      Response(403, Remaining(<<"0">>) @@ Reset(<<"x">>), BodyRateLimit),
      Response(403, Remaining(<<"0">>), BodyRateLimit),
      Response(403, Remaining(<<"5">>) @@ Reset(<<"1", "0">>), BodyRateLimit),
      Response(403, NoHeaders, BodyRateLimit) }

\* 403 responses with neither
Plain403s ==
    { Response(403, NoHeaders, BodyOther),
      Response(403, Remaining(<<"0">>) @@ Reset(<<"1", "0">>), BodyCapitals) }

\* other statuses that are not in range(500, 600)
OtherErrors ==
    { Response(404, NoHeaders, BodyOther),
      Response(404, NoHeaders, BodyJson),
      Response(400, NoHeaders, BodyBlank),
      Response(429, RetryAfter(<<"7">>), BodyRateLimit) }

\* a 503 dressed like a rate-limited 403
RateLimit503 ==
    Response(503, RetryAfter(<<"7">>) @@ Remaining(<<"0">>)
                  @@ Reset(<<"1", "0">>), BodyRateLimit)

AllOutcomes ==
    {Ok200, Err500, RateLimit503, TransportError, InvalidSchema}
        \cup RetryAfter403s \cup RateLimit403s \cup Plain403s \cup OtherErrors

FlakyOutcomes == {Ok200, Err500, TransportError}

\* the defaults of RetryConfig but for retries and total_wait
CfgNoDeadline(n) ==
    RetryConfig(n, 1000, 1250, 0, 120000, None, DefaultRetryStatuses)

\* a short total_wait, and 403 and 429 among the statuses to retry
CfgDeadline(n) ==
    RetryConfig(n, 1000, 1250, 0, 120000, Some(5000),
                DefaultRetryStatuses \cup {403, 429})

\* no total_wait, base 2 as in test_retry_no_total_wait, and a backoff_max
\* low enough to be met within a few retries
CfgLowMax(n) ==
    RetryConfig(n, 1000, 2000, 0, 3000, None, DefaultRetryStatuses)

\* factor 3 and base 2 as in test_retry_request_errors, and a backoff_max
\* below backoff_factor * 0.1
CfgTinyMax(n) ==
    RetryConfig(n, 3000, 2000, 0, 200, None, DefaultRetryStatuses)

\* jitter, a steeper base, a low backoff_max and a shorter total_wait
CfgJitter(n) ==
    RetryConfig(n, 1000, 2000, 300, 2100, Some(2500), DefaultRetryStatuses)

\* retries enough for the four failures of
\* test_retry_intermixed_5xx_and_rate_limit, and its base 2
CfgIntermixed ==
    RetryConfig(4, 1000, 2000, 0, 120000, None, DefaultRetryStatuses)

\* the responses of that test: 500, 403 with Retry-After: 6, and 200
IntermixedOutcomes ==
    {Ok200, Err500, Response(403, RetryAfter(<<"6">>), BodyRateLimit)}

\* raw=False, stream=False, the defaults
PlainCall == [raw |-> FALSE, stream |-> FALSE]

\* raw=True
RawCall == [raw |-> TRUE, stream |-> FALSE]

CallOptions == [raw : BOOLEAN, stream : BOOLEAN]

\* successful responses: 204 without body (test_delete), 204 with a body,
\* and 200 with a JSON, a blank, an empty and a non-JSON body
SuccessOutcomes ==
    { Response(204, NoHeaders, <<>>),
      Response(204, NoHeaders, BodyJson),
      Ok200,
      Response(200, NoHeaders, BodyBlank),
      Response(200, NoHeaders, <<>>),
      Response(200, NoHeaders, BodyOther) }

Scenarios ==
    { [config |-> c, server |-> AllOutcomes, budget |-> 1,
       options |-> PlainCall] :
        c \in UNION { {CfgNoDeadline(n), CfgDeadline(n), CfgJitter(n)} :
                      n \in 0..MaxRetries } }
    \cup
    { [config |-> c, server |-> FlakyOutcomes, budget |-> 1,
       options |-> PlainCall] :
        c \in UNION { {CfgNoDeadline(n), CfgLowMax(n), CfgTinyMax(n)} :
                      n \in 0..MaxRetriesFlaky } }
    \cup
    { [config |-> c, server |-> {Ok200, Err500},
       budget |-> MaxRequests, options |-> PlainCall] :
        c \in {CfgNoDeadline(1), CfgDeadline(1)} }
    \cup
    { [config |-> CfgNoDeadline(1), server |-> SuccessOutcomes \cup {Err500},
       budget |-> 1, options |-> o] : o \in CallOptions }
    \cup
    { [config |-> CfgIntermixed, server |-> IntermixedOutcomes, budget |-> 1,
       options |-> PlainCall] }

Methods == {"GET", "POST"}

\* how long one session.send may take
SendDurations == {0, 400}

\* how long the caller may wait before its next request
IdleGaps == {0, 600, 1500}

NoResult == [kind |-> "none", outcome |-> NoOutcome, send |-> 0]

\* r.json() of a body that is not a JSON document
NotJson == [ok |-> FALSE, type |-> "", items |-> <<>>]

\* request() has not returned
NoValue == [type |-> "nothing", response |-> NoOutcome, json |-> NotJson]

\* the 204 test left out
ReturnValueBlankOnly(opts, r) ==
    IF opts.stream \/ opts.raw
    THEN [type |-> "Response", response |-> r, json |-> NotJson]
    ELSE IF Strip(r.text) = <<>>
    THEN [type |-> "None", response |-> NoOutcome, json |-> NotJson]
    ELSE IF JsonLoads(r.text).ok
    THEN [type |-> "json", response |-> NoOutcome, json |-> JsonLoads(r.text)]
    ELSE [type |-> "JSONDecodeError", response |-> NoOutcome, json |-> NotJson]

\* request(), after the loop: the value returned for the response r, or
\* the error that r.json() raises
ReturnValue(opts, r) ==
    IF opts.stream \/ opts.raw
    THEN [type |-> "Response", response |-> r, json |-> NotJson]
    ELSE IF r.status_code = 204 \/ Strip(r.text) = <<>>
    THEN [type |-> "None", response |-> NoOutcome, json |-> NotJson]
    ELSE IF JsonLoads(r.text).ok
    THEN [type |-> "json", response |-> NoOutcome, json |-> JsonLoads(r.text)]
    ELSE [type |-> "JSONDecodeError", response |-> NoOutcome, json |-> NotJson]

\* no paginate() generator is being consumed
NoPager ==
    [pc |-> "off", raw |-> FALSE, given |-> None, path |-> None,
     params |-> None, site |-> <<>>, requests |-> <<>>, yielded |-> <<>>,
     error |-> "none", sleeps |-> <<>>]

\* the two threads that may share the client
Callers == {"A", "B"}

\* a thread outside request() that has not sent anything yet
IdleCaller ==
    [pc |-> "idle", wake |-> 0, calls |-> 0, sent |-> None, attempts |-> 0,
     stop_time |-> None, failures |-> 0, retry_at |-> 0]

----------------------------------------------------------------------------
(* Client.request() *)

Init ==
    /\ \E s \in Scenarios :
          /\ config = s.config
          /\ server = s.server
          /\ budget = s.budget
          /\ options = s.options
    /\ clock = 0
    /\ last_mutation = None
    /\ pc = "idle"
    /\ method = "GET"
    /\ attempts = 0
    /\ stop_time = None
    /\ outcome = NoOutcome
    /\ backoffv = None
    /\ decision = None
    /\ sends = 0
    /\ statuses = <<>>
    /\ sleeps = <<>>
    /\ pacing = 0
    /\ result = NoResult
    /\ callers = [t \in Callers |-> IdleCaller]
    /\ pager = NoPager
    /\ returned = NoValue
    /\ sent_at = <<>>

\* a sleep of mutation_delay in full once one is due
MutationSleepInFull(m, last, now) ==
    IF m \in MUTATING_METHODS /\ last # None
       /\ mutation_delay - (now - last[1]) > 0
    THEN mutation_delay
    ELSE 0

\* request(), the sleep between mutating requests: the argument of time.sleep
\* (0: no sleep)
MutationSleep(m, last, now) ==
    IF m \in MUTATING_METHODS /\ last # None
    THEN Max(mutation_delay - (now - last[1]), 0)
    ELSE 0

\* request() from its call to the creation of the Retrier
Begin(m) ==
    /\ pc = "idle"
    /\ budget > 0
    /\ budget' = budget - 1
    /\ method' = m
    /\ pacing' = MutationSleep(m, last_mutation, clock)
    /\ clock' = clock + pacing'
    /\ attempts' = 0
    /\ stop_time' = Retrier_post_init(config, clock')
    /\ outcome' = NoOutcome
    /\ backoffv' = None
    /\ decision' = None
    /\ sends' = 0
    /\ statuses' = <<>>
    /\ sleeps' = <<>>
    /\ result' = NoResult
    /\ pc' = "send"
    /\ returned' = NoValue
    /\ sent_at' = <<>>
    /\ UNCHANGED <<options, pager, callers, config, server, last_mutation>>

\* last_mutation set when session.send has returned
SendStampsAfter(o, d) ==
    /\ pc = "send"
    /\ last_mutation' = IF method \in MUTATING_METHODS THEN Some(clock + d)
                        ELSE last_mutation
    /\ sends' = sends + 1
    /\ sent_at' = Append(sent_at, clock)
    /\ statuses' = Append(statuses, o.status_code)
    /\ outcome' = o
    /\ clock' = clock + d
    /\ pc' = "handle"
    /\ UNCHANGED <<returned, options, pager, callers, config, server,
                   method, attempts, stop_time, backoffv,
                   decision, sleeps, pacing, result, budget>>

\* last_mutation set by the first send of a request only
SendStampsFirstOnly(o, d) ==
    /\ pc = "send"
    /\ last_mutation' = IF method \in MUTATING_METHODS /\ sends = 0
                        THEN Some(clock)
                        ELSE last_mutation
    /\ sends' = sends + 1
    /\ sent_at' = Append(sent_at, clock)
    /\ statuses' = Append(statuses, o.status_code)
    /\ outcome' = o
    /\ clock' = clock + d
    /\ pc' = "handle"
    /\ UNCHANGED <<returned, options, pager, callers, config, server,
                   method, attempts, stop_time, backoffv,
                   decision, sleeps, pacing, result, budget>>

\* request(), one pass of the loop up to the end of session.send, which
\* produces o after d
Send(o, d) ==
    /\ pc = "send"
    /\ last_mutation' = IF method \in MUTATING_METHODS THEN Some(clock)
                        ELSE last_mutation
    /\ sends' = sends + 1
    /\ sent_at' = Append(sent_at, clock)
    /\ statuses' = Append(statuses, o.status_code)
    /\ outcome' = o
    /\ clock' = clock + d
    /\ pc' = "handle"
    /\ UNCHANGED <<returned, options, pager, callers, config, server,
                   method, attempts, stop_time, backoffv,
                   decision, sleeps, pacing, result, budget>>

\* request(): raise_for_status() does not raise, break, return
ReturnResponse ==
    /\ pc = "handle"
    /\ outcome.kind = "response"
    /\ ~RaisesForStatus(outcome)
    /\ result' = [kind |-> "return", outcome |-> outcome, send |-> sends]
    /\ returned' = ReturnValue(options, outcome)
    /\ pc' = "done"
    /\ UNCHANGED <<sent_at, options, pager, callers, config, server, clock,
                   last_mutation, method, attempts,
                   stop_time, outcome, backoffv, decision, sends, statuses,
                   sleeps, pacing, budget>>

\* request(): except ValueError: raise
RaiseValueError ==
    /\ pc = "handle"
    /\ outcome.kind = "InvalidSchema"
    /\ result' = [kind |-> "InvalidSchema", outcome |-> outcome,
                  send |-> sends]
    /\ pc' = "done"
    /\ UNCHANGED <<sent_at, returned, options, pager, callers, config, server,
                   clock, last_mutation, method, attempts,
                   stop_time, outcome, backoffv, decision, sends, statuses,
                   sleeps, pacing, budget>>

\* the RequestException clause tried before the ValueError clause
IsRequestExceptionFirst(o) ==
    \/ o.kind \in {"RequestException", "InvalidSchema"}
    \/ o.kind = "response" /\ RaisesForStatus(o)

\* the exception caught by `except requests.RequestException as e`
IsRequestException(o) ==
    \/ o.kind = "RequestException"
    \/ o.kind = "response" /\ RaisesForStatus(o)

\* e.response
ResponseOf(o) == IF o.kind = "response" THEN Some(o) ELSE None

\* every final error wrapped in PrettyHTTPError
RaisedErrorAlwaysPretty(o) == "PrettyHTTPError"

\* request(): the exception that leaves request() when the Retrier returns
\* None: PrettyHTTPError for an HTTPError with a response, else e itself
RaisedError(o) ==
    IF o.kind = "response" THEN "PrettyHTTPError" ELSE o.kind

\* the error of the first failed send kept and raised at the end
EvaluateRaisesFirst(rnd) ==
    /\ pc = "handle"
    /\ IsRequestException(outcome)
    /\ attempts' = attempts + 1
    /\ LET ret == Retrier_call(config, attempts', stop_time, clock,
                               ResponseOf(outcome), rnd)
           first == IF result # NoResult THEN result
                    ELSE [kind |-> RaisedError(outcome),
                          outcome |-> outcome, send |-> sends]
       IN  /\ decision' = ret.delay
           /\ backoffv' = ret.backoff
           /\ result' = first
           /\ pc' = IF ret.delay # None THEN "sleep" ELSE "done"
    /\ UNCHANGED <<sent_at, returned, options, pager, callers, config, server,
                   clock, last_mutation, method, stop_time,
                   outcome, sends, statuses, sleeps, pacing, budget>>

\* the attempts counted anew when the status differs from the one before
EvaluateCountsPerKind(rnd) ==
    /\ pc = "handle"
    /\ IsRequestException(outcome)
    /\ attempts' = IF sends > 1 /\ statuses[sends] # statuses[sends - 1]
                   THEN 1 ELSE attempts + 1
    /\ LET ret == Retrier_call(config, attempts', stop_time, clock,
                               ResponseOf(outcome), rnd)
       IN  /\ decision' = ret.delay
           /\ backoffv' = ret.backoff
           /\ IF ret.delay # None
              THEN /\ pc' = "sleep"
                   /\ result' = result
              ELSE /\ pc' = "done"
                   /\ result' = [kind |-> RaisedError(outcome),
                                 outcome |-> outcome, send |-> sends]
    /\ UNCHANGED <<sent_at, returned, options, pager, callers, config, server,
                   clock, last_mutation, method, stop_time,
                   outcome, sends, statuses, sleeps, pacing, budget>>

\* the Retrier called without counting the attempt when it grants a retry
EvaluateForgetsAttempt(rnd) ==
    /\ pc = "handle"
    /\ IsRequestException(outcome)
    /\ LET ret == Retrier_call(config, attempts + 1, stop_time, clock,
                               ResponseOf(outcome), rnd)
       IN  /\ decision' = ret.delay
           /\ backoffv' = ret.backoff
           /\ IF ret.delay # None
              THEN /\ pc' = "sleep"
                   /\ attempts' = attempts
                   /\ result' = result
              ELSE /\ pc' = "done"
                   /\ attempts' = attempts + 1
                   /\ result' = [kind |-> RaisedError(outcome),
                                 outcome |-> outcome, send |-> sends]
    /\ UNCHANGED <<sent_at, returned, options, pager, callers, config, server,
                   clock, last_mutation, method,
                   stop_time, outcome, sends, statuses, sleeps, pacing,
                   budget>>

\* request(): except requests.RequestException: the call of the Retrier
\* with the value rnd of random()
Evaluate(rnd) ==
    /\ pc = "handle"
    /\ IsRequestException(outcome)
    /\ attempts' = attempts + 1
    /\ LET ret == Retrier_call(config, attempts', stop_time, clock,
                               ResponseOf(outcome), rnd)
       IN  /\ decision' = ret.delay
           /\ backoffv' = ret.backoff
           /\ IF ret.delay # None
              THEN /\ pc' = "sleep"
                   /\ result' = result
              ELSE /\ pc' = "done"
                   /\ result' = [kind |-> RaisedError(outcome),
                                 outcome |-> outcome, send |-> sends]
    /\ UNCHANGED <<sent_at, returned, options, pager, callers, config, server,
                   clock, last_mutation, method, stop_time,
                   outcome, sends, statuses, sleeps, pacing, budget>>

\* the retry sleep of a mutating request stretched to mutation_delay
\* after its last send
SleepPaces ==
    /\ pc = "sleep"
    /\ sleeps' = Append(sleeps, decision[1])
    /\ clock' = clock + Max(decision[1],
                            MutationSleep(method, last_mutation, clock))
    /\ pc' = "send"
    /\ UNCHANGED <<sent_at, returned, options, pager, callers, config, server,
                   last_mutation, method, attempts, stop_time,
                   outcome, backoffv, decision, sends, statuses, pacing, result,
                   budget>>

\* the next send started while the retry sleep is under way
SleepSendsAhead ==
    /\ pc = "sleep"
    /\ sleeps' = Append(sleeps, decision[1])
    /\ sends' = sends + 1
    /\ sent_at' = Append(sent_at, clock)
    /\ statuses' = Append(statuses, 0)
    /\ clock' = clock + decision[1]
    /\ pc' = "send"
    /\ UNCHANGED <<returned, options, pager, callers, config, server,
                   last_mutation, method, attempts, stop_time,
                   outcome, backoffv, decision, pacing, result,
                   budget>>

\* request(): time.sleep(delay), then back to the top of the loop
Sleep ==
    /\ pc = "sleep"
    /\ sleeps' = Append(sleeps, decision[1])
    /\ clock' = clock + decision[1]
    /\ pc' = "send"
    /\ UNCHANGED <<sent_at, returned, options, pager, callers, config, server,
                   last_mutation, method, attempts, stop_time,
                   outcome, backoffv, decision, sends, statuses, pacing, result,
                   budget>>

\* the caller has the result and does something else for `gap`
Finish(gap) ==
    /\ pc = "done"
    /\ clock' = clock + gap
    /\ pc' = "idle"
    /\ UNCHANGED <<sent_at, returned, options, pager, callers, config, server,
                   last_mutation, method, attempts, stop_time,
                   outcome, backoffv, decision, sends, statuses, sleeps, pacing,
                   result, budget>>

Next ==
    \/ \E m \in Methods : Begin(m)
    \/ \E o \in server, d \in SendDurations : Send(o, d)
    \/ ReturnResponse
    \/ RaiseValueError
    \/ \E rnd \in RandomDraws : Evaluate(rnd)
    \/ Sleep
    \/ \E gap \in IdleGaps : Finish(gap)

Spec == Init /\ [][Next]_vars

\* one outcome of each kind the retry loop tells apart: success (the 204 of
\* test_delete), a status to retry, a transport error, the ValueError, a 403
\* with a usable and with an unusable Retry-After, a primary rate limit, and
\* statuses not retried
FairOutcomes ==
    { Response(204, NoHeaders, <<>>), Err500, TransportError, InvalidSchema,
      Response(403, RetryAfter(<<"7">>), BodyOther),
      Response(403, RetryAfter(<<"1", "h">>), BodyOther),
      Response(403, Remaining(<<"0">>) @@ Reset(<<"1", "0">>), BodyRateLimit),
      Response(403, NoHeaders, BodyOther),
      Response(404, NoHeaders, BodyOther) }

\* one request() against any sequence of these outcomes, for every retries
\* up to MaxRetries, without and with total_wait
FairScenarios ==
    { [config |-> c, server |-> FairOutcomes, budget |-> 1,
       options |-> PlainCall] :
        c \in UNION { {CfgNoDeadline(n), CfgDeadline(n)} :
                      n \in 0..MaxRetries } }

InitFair ==
    /\ \E s \in FairScenarios :
          /\ config = s.config
          /\ server = s.server
          /\ budget = s.budget
          /\ options = s.options
    /\ clock = 0
    /\ last_mutation = None
    /\ pc = "idle"
    /\ method = "GET"
    /\ attempts = 0
    /\ stop_time = None
    /\ outcome = NoOutcome
    /\ backoffv = None
    /\ decision = None
    /\ sends = 0
    /\ statuses = <<>>
    /\ sleeps = <<>>
    /\ pacing = 0
    /\ result = NoResult
    /\ callers = [t \in Callers |-> IdleCaller]
    /\ pager = NoPager
    /\ returned = NoValue
    /\ sent_at = <<>>

\* the steps of one request() call, from the call to its return or raise
NextFair ==
    \/ \E m \in Methods : Begin(m)
    \/ \E o \in server, d \in SendDurations : Send(o, d)
    \/ ReturnResponse
    \/ RaiseValueError
    \/ \E rnd \in RandomDraws : Evaluate(rnd)
    \/ Sleep

\* every send and every sleep returns, and the code after it runs
FairSpec == InitFair /\ [][NextFair]_vars /\ WF_vars(NextFair)

----------------------------------------------------------------------------
(* Client.paginate().  The body of a page is a JSON list, or a JSON object  *)
(* given as the sequence of its fields; the items are numbers.  A server    *)
(* holds a sequence of pages: the first answers the caller's path, page k   *)
(* answers the URL that the "next" link of page k-1 gives.                  *)

JsonList(items) == [type |-> "list", items |-> items, fields |-> <<>>]

JsonObject(fields) == [type |-> "dict", items |-> <<>>, fields |-> fields]

\* a field of a JSON object: its value is a list, or something else
ListField(key, items) == [key |-> key, list |-> TRUE, value |-> items]

OtherField(key, v) == [key |-> key, list |-> FALSE, value |-> <<v>>]

\* the bodies of test_paginate_list and test_paginate_dict, an object
\* without a list and an object with two
PageBodies ==
    { JsonList(<<1, 2>>),
      JsonList(<<>>),
      JsonObject(<<OtherField("total_count", 8), ListField("results", <<3, 4>>),
                   OtherField("incomplete_results", 0)>>),
      JsonObject(<<OtherField("total_count", 8)>>),
      JsonObject(<<ListField("results", <<5>>), ListField("errors", <<6>>)>>) }

\* the path given by the caller, then the URLs of the "next" links
Urls == <<"/widgets", "widgets?page=2", "widgets?page=3", "widgets?page=4">>

\* the params given by the caller
CallerParams == {None, Some("superfluous=yes")}

RECURSIVE SeqsOf(_, _)
\* the sequences of length n over S
SeqsOf(S, n) ==
    IF n = 0 THEN {<<>>}
    ELSE {Append(q, x) : q \in SeqsOf(S, n - 1), x \in S}

\* the servers: one, two or more pages
Sites == UNION {SeqsOf(PageBodies, n) : n \in 1..MaxRequests}

\* the number of the page that answers url
PageNo(url) == CHOOSE k \in 1..Len(Urls) : Urls[k] = url

\* r.json() of the response to a GET of url
PageData(site, url) == site[PageNo(url)]

\* r.links.get("next", {}).get("url") of that response
NextLink(site, url) ==
    IF PageNo(url) < Len(site) THEN Some(Urls[PageNo(url) + 1]) ELSE None

IsListField(f) == f.list

\* the first list field taken when there are several
PageItemsFirstList(data) ==
    IF data.type = "list"
    THEN [ok |-> TRUE, items |-> data.items]
    ELSE LET itemses == SelectSeq(data.fields, IsListField)
         IN  IF Len(itemses) = 0
             THEN [ok |-> FALSE, items |-> <<>>]
             ELSE [ok |-> TRUE, items |-> itemses[1].value]

\* paginate(), raw=False: the items to yield from the body of a page;
\* ok = FALSE where ValueError is raised
PageItems(data) ==
    IF data.type = "list"
    THEN [ok |-> TRUE, items |-> data.items]
    ELSE LET itemses == SelectSeq(data.fields, IsListField)
         IN  IF Len(itemses) # 1
             THEN [ok |-> FALSE, items |-> <<>>]
             ELSE [ok |-> TRUE, items |-> itemses[1].value]

\* the caller's params sent again with every page
ParamsAfterPageKept(params) == params

\* paginate(): params = None at the end of the loop body
ParamsAfterPage(params) == None

\* paginate(): `while path is not None`, and the arguments of self.get
PaginateGet ==
    /\ pager.pc = "fetch"
    /\ pc = "idle"
    /\ pager.path # None
    /\ pager' = [pager EXCEPT
                    !.pc = "get",
                    !.requests = Append(@, [method |-> "GET",
                                            path |-> pager.path[1],
                                            params |-> pager.params])]
    /\ UNCHANGED <<config, server, clock, last_mutation, pc, method, attempts,
                   stop_time, outcome, backoffv, decision, sends, statuses,
                   sleeps, pacing, result, budget, callers, options,
                   returned, sent_at>>

\* one Retrier made by the first get() and used by the later ones
PaginateRequestSharedRetrier ==
    /\ pager.pc = "get"
    /\ pc = "idle"
    /\ budget > 0
    /\ budget' = budget - 1
    /\ method' = "GET"
    /\ pacing' = 0
    /\ attempts' = IF Len(pager.requests) > 1 THEN attempts ELSE 0
    /\ stop_time' = IF Len(pager.requests) > 1 THEN stop_time
                    ELSE Retrier_post_init(config, clock)
    /\ outcome' = NoOutcome
    /\ backoffv' = None
    /\ decision' = None
    /\ sends' = 0
    /\ statuses' = <<>>
    /\ sleeps' = <<>>
    /\ result' = NoResult
    /\ pc' = "send"
    /\ returned' = NoValue
    /\ sent_at' = <<>>
    /\ UNCHANGED <<options, pager, callers, config, server, last_mutation,
                   clock>>

\* paginate(): self.get(..., raw=True) enters request()
PaginateRequest ==
    /\ pager.pc = "get"
    /\ Begin("GET")

\* paginate(): the rest of the loop body once get() has returned r or raised
PaginatePage ==
    /\ pager.pc = "get"
    /\ pc = "done"
    /\ pc' = "idle"
    /\ LET url   == pager.path[1]
           data  == PageData(pager.site, url)
           page  == PageItems(data)
           next  == NextLink(pager.site, url)
           got   == [pager EXCEPT !.sleeps = Append(@, sleeps)]
           moved == [got EXCEPT
                        !.path = next,
                        !.params = ParamsAfterPage(@),
                        !.pc = IF next = None THEN "exhausted" ELSE "fetch"]
       IN  IF result.kind # "return"
           THEN pager' = [got EXCEPT !.pc = "raised", !.error = result.kind]
           ELSE IF pager.raw
           THEN pager' = [moved EXCEPT !.yielded = Append(@, url)]
           ELSE IF ~page.ok
           THEN pager' = [got EXCEPT !.pc = "raised", !.error = "ValueError"]
           ELSE pager' = [moved EXCEPT !.yielded = @ \o page.items]
    /\ UNCHANGED <<config, server, clock, last_mutation, method, attempts,
                   stop_time, outcome, backoffv, decision, sends, statuses,
                   sleeps, pacing, result, budget, callers, options,
                   returned, sent_at>>

\* a server that answers, or fails with 500; and under total_wait = 5 s
\* one that may also answer 403 with Retry-After: 7
PaginateScenarios ==
    { [config |-> CfgNoDeadline(1), server |-> {Ok200, Err500}],
      [config |-> CfgDeadline(1),
       server |-> {Ok200, Err500,
                   Response(403, RetryAfter(<<"7">>), BodyOther)}] }

\* paginate(path, params=..., raw=...) has been called on a new client and
\* its generator is consumed to the end
InitPaginate ==
    /\ \E sc \in PaginateScenarios :
          /\ config = sc.config
          /\ server = sc.server
    /\ budget = MaxRequests
    /\ clock = 0
    /\ last_mutation = None
    /\ pc = "idle"
    /\ method = "GET"
    /\ attempts = 0
    /\ stop_time = None
    /\ outcome = NoOutcome
    /\ backoffv = None
    /\ decision = None
    /\ sends = 0
    /\ statuses = <<>>
    /\ sleeps = <<>>
    /\ pacing = 0
    /\ result = NoResult
    /\ callers = [t \in Callers |-> IdleCaller]
    /\ options = RawCall
    /\ returned = NoValue
    /\ sent_at = <<>>
    /\ \E site \in Sites, params \in CallerParams, raw \in BOOLEAN :
          pager = [pc |-> "fetch", raw |-> raw, given |-> params,
                   path |-> Some(Urls[1]), params |-> params, site |-> site,
                   requests |-> <<>>, yielded |-> <<>>, error |-> "none",
                   sleeps |-> <<>>]

NextPaginate ==
    \/ PaginateGet
    \/ PaginateRequest
    \/ \E o \in server : Send(o, 0)
    \/ ReturnResponse
    \/ \E rnd \in {0} : Evaluate(rnd)
    \/ Sleep
    \/ PaginatePage

SpecPaginate == InitPaginate /\ [][NextPaginate]_vars

----------------------------------------------------------------------------
(* Client.request() called by several threads on one client.  Each call is  *)
(* a POST; a step is what one thread does between two accesses to the       *)
(* shared last_mutation or to the clock.  The Retrier is a local variable   *)
(* of request(), kept here in the thread's record.                          *)

\* what the single caller's variables hold meanwhile
sequential == <<config, server, pc, method, attempts, stop_time, outcome,
                backoffv, decision, sends, statuses, sleeps, pacing, result,
                budget, pager, options, returned, sent_at>>

\* request(): last_mutation and the clock are read, mutdelay is computed
\* and time.sleep(mutdelay) is entered if it is positive
CallerReads(t) ==
    /\ callers[t].pc = "idle"
    /\ callers[t].calls < MaxCalls
    /\ LET mutdelay == MutationSleep("POST", last_mutation, clock)
       IN  callers' = [callers EXCEPT
                          ![t].pc = IF mutdelay > 0 THEN "sleeping"
                                    ELSE "create",
                          ![t].wake = clock + mutdelay,
                          ![t].failures = 0,
                          ![t].calls = @ + 1]
    /\ UNCHANGED <<clock, last_mutation, sequential>>

\* request(): time.sleep(mutdelay) returns, not before its time
CallerWakes(t) ==
    /\ callers[t].pc = "sleeping"
    /\ clock >= callers[t].wake
    /\ callers' = [callers EXCEPT ![t].pc = "create"]
    /\ UNCHANGED <<clock, last_mutation, sequential>>

\* the Retrier of the thread's first call kept for its later calls
CallerCreatesOnce(t) ==
    /\ callers[t].pc = "create"
    /\ callers' = IF callers[t].calls > 1
                  THEN [callers EXCEPT ![t].pc = "stamp"]
                  ELSE [callers EXCEPT
                           ![t].pc = "stamp",
                           ![t].attempts = 0,
                           ![t].stop_time = Retrier_post_init(config, clock)]
    /\ UNCHANGED <<clock, last_mutation, sequential>>

\* request(): retrier = Retrier(self.retry_config)
CallerCreates(t) ==
    /\ callers[t].pc = "create"
    /\ callers' = [callers EXCEPT
                      ![t].pc = "stamp",
                      ![t].attempts = 0,
                      ![t].stop_time = Retrier_post_init(config, clock)]
    /\ UNCHANGED <<clock, last_mutation, sequential>>

\* request(): self.last_mutation = nowdt()
CallerStamps(t) ==
    /\ callers[t].pc = "stamp"
    /\ last_mutation' = Some(clock)
    /\ callers' = [callers EXCEPT ![t].pc = "send"]
    /\ UNCHANGED <<clock, sequential>>

\* request(): self.session.send(req) produces o; on success the call
\* returns, on failure the thread's Retrier is called and the call either
\* ends with the error or enters time.sleep(delay)
CallerSends(t, o) ==
    /\ callers[t].pc = "send"
    /\ IF ~IsRequestException(o)
       THEN callers' = [callers EXCEPT ![t].pc = "idle",
                                       ![t].sent = Some(clock)]
       ELSE LET att == callers[t].attempts + 1
                ret == Retrier_call(config, att, callers[t].stop_time, clock,
                                    ResponseOf(o), 0)
            IN  callers' = [callers EXCEPT
                               ![t].pc = IF ret.delay = None THEN "idle"
                                         ELSE "backoff",
                               ![t].retry_at = IF ret.delay = None THEN @
                                               ELSE clock + ret.delay[1],
                               ![t].attempts = att,
                               ![t].failures = @ + 1,
                               ![t].sent = Some(clock)]
    /\ UNCHANGED <<clock, last_mutation, sequential>>

\* request(): time.sleep(delay) returns, not before its time, and the loop
\* starts over
CallerRetries(t) ==
    /\ callers[t].pc = "backoff"
    /\ clock >= callers[t].retry_at
    /\ callers' = [callers EXCEPT ![t].pc = "stamp"]
    /\ UNCHANGED <<clock, last_mutation, sequential>>

\* time passes
Tick(d) ==
    /\ clock + d <= MaxClock
    /\ clock' = clock + d
    /\ UNCHANGED <<last_mutation, callers, sequential>>

\* what session.send produces for these threads
ConcurrentOutcomes == {Ok200, Err500}

InitConcurrent ==
    /\ Init
    /\ config = CfgDeadline(1)
    /\ server = ConcurrentOutcomes

NextConcurrent ==
    \/ \E t \in Callers : CallerReads(t)
    \/ \E t \in Callers : CallerWakes(t)
    \/ \E t \in Callers : CallerCreates(t)
    \/ \E t \in Callers : CallerStamps(t)
    \/ \E t \in Callers, o \in server : CallerSends(t, o)
    \/ \E t \in Callers : CallerRetries(t)
    \/ \E d \in IdleGaps \ {0} : Tick(d)

SpecConcurrent == InitConcurrent /\ [][NextConcurrent]_vars

----------------------------------------------------------------------------
(* Vocabulary of the properties.  In a state with pc = "sleep", or with     *)
(* pc = "done" and an error as result, the last step was a call of the      *)
(* Retrier made at time `clock` on `outcome`, and `attempts` counts it.     *)

\* a delay d limited to the time left before stop_time
CappedByTimeLeft(d) ==
    IF stop_time = None THEN d ELSE Min(stop_time[1] - clock, d)

\* the retries are used up, or the deadline is reached
PolicyStops ==
    \/ attempts > config.retries
    \/ stop_time # None /\ clock >= stop_time[1]

\* the last Retrier call returned a delay
Retrying == pc = "sleep"

\* the local backoff of the last Retrier call is RetryConfig.backoff(attempts)
BackoffOfAttempts ==
    /\ backoffv # None
    /\ \E rnd \in RandomDraws : backoffv[1] = backoff(config, attempts, rnd)

----------------------------------------------------------------------------
(* C1: with retries = N the Retrier returns a delay on at most N            *)
(* evaluations of one request and the (N+1)th evaluation returns None; so   *)
(* a request makes at most N retry sleeps and at most N+1 sends, and with   *)
(* N = 0 exactly one send and no sleep.                                     *)
C1_RetryCap ==
    /\ attempts <= config.retries + 1
    /\ Retrying => attempts <= config.retries
    /\ attempts = config.retries + 1 => decision = None /\ pc \in {"done", "idle"}
    /\ Len(sleeps) + (IF Retrying THEN 1 ELSE 0) <= config.retries
    /\ sends <= config.retries + 1
    /\ config.retries = 0 /\ pc = "done" => sends = 1 /\ sleeps = <<>>

\* all N retries were made and the (N+1)th evaluation stopped the request
C1_Witness ==
    /\ config.retries = MaxRetries
    /\ pc = "done"
    /\ attempts = config.retries + 1
    /\ Len(sleeps) = config.retries
    /\ sends = config.retries + 1
    /\ decision = None

----------------------------------------------------------------------------
\* a returned response is the one of the last send, which came after as
\* many retry sleeps and Retrier calls as there were sends before it
C2_ReturnedAfterKSleeps ==
    result.kind = "return" =>
        /\ result.outcome.kind = "response"
        /\ result.outcome.status_code < 400
        /\ result.outcome = outcome
        /\ result.send = sends
        /\ Len(sleeps) = sends - 1
        /\ attempts = sends - 1

\* the step that handles a response with a status below 400
C2_SuccessNotEvaluated ==
    (pc = "handle" /\ outcome.kind = "response" /\ outcome.status_code < 400)
        => /\ pc' = "done"
           /\ result' = [kind |-> "return", outcome |-> outcome,
                         send |-> sends]
           /\ UNCHANGED <<attempts, decision, backoffv, sleeps, sends, clock>>

(* C2: when the first k sends fail and are retried and send k+1 returns a   *)
(* status below 400, request() returns that response after exactly k retry  *)
(* sleeps; a successful send ends the loop at once and is not passed to the *)
(* Retrier (attempts is not incremented for it).                            *)
C2_SuccessEndsLoop ==
    [](C2_ReturnedAfterKSleeps) /\ [][C2_SuccessNotEvaluated]_vars

\* a success on the third send, after two retried failures
C2_Witness ==
    /\ result.kind = "return"
    /\ pc = "done"
    /\ sends = 3
    /\ Len(sleeps) = 2
    /\ attempts = 2
    /\ stop_time # None

----------------------------------------------------------------------------
\* retries = 5, backoff_factor = 1, backoff_base = 1.25
C3_Config ==
    /\ config.retries = 5
    /\ config.backoff_factor = 1000
    /\ config.backoff_base = 1250
    /\ config.backoff_jitter = 0

\* the request is still in its loop
C3_Running == pc \in {"send", "handle", "sleep"}

(* C3 as stated: with retries = 5, backoff_factor = 1, backoff_base = 1.25, *)
(* six consecutive 500 responses followed by a 200 make request() return    *)
(* the 200: after the sixth 500 the request goes on to a seventh send.      *)
C3_SixFailuresThenSuccess ==
    (C3_Config /\ statuses = <<500, 500, 500, 500, 500, 500>>) => C3_Running

(* C3 amended: with retries = 5, backoff_factor = 1, backoff_base = 1.25,   *)
(* five consecutive 500 responses followed by a 200 make request() return   *)
(* the 200 after exactly 5 retry sleeps of backoff(1)..backoff(5); a sixth  *)
(* consecutive 500 ends the request with PrettyHTTPError after 5 sleeps.    *)
C3_FiveFailuresThenSuccess ==
    C3_Config =>
        /\ statuses = <<500, 500, 500, 500, 500>> => C3_Running
        /\ (statuses = <<500, 500, 500, 500, 500, 200>> /\ ~C3_Running) =>
              /\ result = [kind |-> "return", outcome |-> Ok200, send |-> 6]
              /\ sleeps = <<100, 1250, 1562, 1952, 2440>>
        /\ (statuses = <<500, 500, 500, 500, 500, 500>> /\ ~C3_Running) =>
              /\ result = [kind |-> "PrettyHTTPError", outcome |-> Err500,
                           send |-> 6]
              /\ sleeps = <<100, 1250, 1562, 1952, 2440>>

\* the 200 that follows five 500s has been returned
C3_Witness ==
    /\ C3_Config
    /\ statuses = <<500, 500, 500, 500, 500, 200>>
    /\ pc = "done"
    /\ result.kind = "return"
    /\ Len(sleeps) = 5

----------------------------------------------------------------------------
\* a response with a status >= 400 that is neither 403 nor in retry_statuses
C4_NonRetryable(o) ==
    /\ o.kind = "response"
    /\ o.status_code >= 400
    /\ o.status_code # 403
    /\ o.status_code \notin config.retry_statuses

\* the step that handles such a response
C4_StopsAtOnce ==
    (pc = "handle" /\ C4_NonRetryable(outcome))
        => /\ pc' = "done"
           /\ decision' = None
           /\ result' = [kind |-> "PrettyHTTPError", outcome |-> outcome,
                         send |-> sends]
           /\ UNCHANGED <<sleeps, sends, clock>>

\* no retry follows such a response; as first response it leaves one send
C4_NoRetry ==
    C4_NonRetryable(outcome) =>
        /\ pc \in {"handle", "done", "idle"}
        /\ pc \in {"done", "idle"} =>
              /\ result.kind = "PrettyHTTPError"
              /\ result.outcome = outcome
              /\ Len(sleeps) = sends - 1
              /\ Len(statuses) = 1 => sends = 1 /\ sleeps = <<>>

(* C4: a response whose status is >= 400, is not 403 and is not in          *)
(* retry_statuses is never retried: the evaluation returns None whatever    *)
(* the value of attempts, no sleep and no further send follow it (so a      *)
(* request that gets it first made exactly one send), and request() raises  *)
(* PrettyHTTPError for that response.                                       *)
C4_NonRetryableStops ==
    [](C4_NoRetry) /\ [][C4_StopsAtOnce]_vars

\* a 404 as first response, with retries left and the deadline far
C4_Witness ==
    /\ pc = "done"
    /\ outcome.status_code = 404
    /\ result.kind = "PrettyHTTPError"
    /\ sends = 1
    /\ attempts = 1
    /\ config.retries >= 1
    /\ ~PolicyStops

----------------------------------------------------------------------------
\* the step that handles a ValueError raised by session.send
C5_PropagatesAtOnce ==
    (pc = "handle" /\ outcome.kind = "InvalidSchema")
        => /\ pc' = "done"
           /\ result' = [kind |-> "InvalidSchema", outcome |-> outcome,
                         send |-> sends]
           /\ UNCHANGED <<attempts, decision, backoffv, sleeps, sends, clock>>

\* a request that ended on a ValueError: the Retrier was not called for it
C5_NotEvaluated ==
    outcome.kind = "InvalidSchema" =>
        /\ pc \in {"handle", "done", "idle"}
        /\ attempts = sends - 1
        /\ Len(sleeps) = sends - 1
        /\ pc \in {"done", "idle"} => result.kind = "InvalidSchema"
        /\ sends = 1 => attempts = 0 /\ sleeps = <<>>

(* C5: a ValueError raised by send propagates out of request() at once,     *)
(* even when retries remain: the Retrier is not called (attempts is not     *)
(* incremented, it stays 0 for a first send), no sleep happens and no       *)
(* further send is made.                                                    *)
C5_ValueErrorPropagates ==
    [](C5_NotEvaluated) /\ [][C5_PropagatesAtOnce]_vars

\* a ValueError on the first send of a request with retries left
C5_Witness ==
    /\ pc = "done"
    /\ result.kind = "InvalidSchema"
    /\ sends = 1
    /\ attempts = 0
    /\ config.retries >= 1

----------------------------------------------------------------------------
(* C6: a send that fails with no response (a RequestException that is not a *)
(* ValueError) is retried under the same policy, the delay being            *)
(* backoff(attempts) (limited, as every delay, to the time left); once the  *)
(* retries are used up or the deadline has passed, that last exception is   *)
(* re-raised as it is, not as PrettyHTTPError.                              *)
C6_TransportErrorRetried ==
    outcome.kind = "RequestException" =>
        /\ Retrying =>
              /\ BackoffOfAttempts
              /\ decision = Some(CappedByTimeLeft(backoffv[1]))
        /\ pc = "done" =>
              /\ PolicyStops
              /\ decision = None
              /\ result = [kind |-> "RequestException", outcome |-> outcome,
                           send |-> sends]

\* the exception of the last send is re-raised when the retries are used up
C6_Witness ==
    /\ outcome.kind = "RequestException"
    /\ pc = "done"
    /\ result.kind = "RequestException"
    /\ statuses = <<0, 0, 0>>
    /\ sleeps = <<100, 1250>>

----------------------------------------------------------------------------
\* the 403 responses of the servers whose Retry-After is an integer
C7_IntegerRetryAfter ==
    { o \in AllOutcomes :
        /\ o.status_code = 403
        /\ "retry-after" \in DOMAIN o.headers
        /\ o.headers["retry-after"] \in {<<"7">>, <<"0">>} }

\* the integer n written in the Retry-After header of such a response
C7_Seconds(o) == IF o.headers["retry-after"] = <<"7">> THEN 7 ELSE 0

----------------------------------------------------------------------------
\* the 403 responses of the servers with "rate limit" in the body,
\* x-ratelimit-remaining "0" and an integer x-ratelimit-reset
C8_PrimaryRateLimit ==
    { o \in AllOutcomes :
        /\ o.status_code = 403
        /\ IsSubstring(RateLimitText, o.text)
        /\ HeaderGet(o.headers, "x-ratelimit-remaining") = Some(<<"0">>)
        /\ "x-ratelimit-reset" \in DOMAIN o.headers
        /\ o.headers["x-ratelimit-reset"] \in {<<"1", "0">>, <<"0">>} }

\* the reset time R of such a response
C8_ResetTime(o) ==
    IF o.headers["x-ratelimit-reset"] = <<"1", "0">> THEN 10000 ELSE 0

\* R - now + 1
C8_UntilReset(o) == C8_ResetTime(o) - clock + 1000

\* R is in the future, R - now + 1 exceeds the backoff and fits in the time left
C8_ResetApplies(o) ==
    /\ C8_ResetTime(o) > clock
    /\ C8_UntilReset(o) > backoffv[1]
    /\ stop_time # None => C8_UntilReset(o) <= stop_time[1] - clock

(* C8 as stated: a 403 whose body contains "rate limit", with               *)
(* x-ratelimit-remaining "0" and an integer x-ratelimit-reset R in the      *)
(* future, yields the delay R - now + 1 whenever that exceeds               *)
(* backoff(attempts) and fits in the time left before the deadline.         *)
C8_ResetDelayAny403 ==
    (Retrying /\ outcome \in C8_PrimaryRateLimit /\ C8_ResetApplies(outcome))
        => decision = Some(C8_UntilReset(outcome))

(* C8 amended: such a 403 that carries no Retry-After header yields the     *)
(* delay R - now + 1 whenever that exceeds backoff(attempts) and fits in    *)
(* the time left before the deadline.                                       *)
C8_ResetDelayNoRetryAfter ==
    (/\ Retrying
     /\ outcome \in C8_PrimaryRateLimit
     /\ "retry-after" \notin DOMAIN outcome.headers
     /\ C8_ResetApplies(outcome))
        => decision = Some(C8_UntilReset(outcome))

\* a primary rate limit met after some time has passed, under a deadline
C8_Witness ==
    /\ Retrying
    /\ outcome \in C8_PrimaryRateLimit
    /\ "retry-after" \notin DOMAIN outcome.headers
    /\ C8_ResetApplies(outcome)
    /\ clock > 0
    /\ decision = Some(11000 - clock)

----------------------------------------------------------------------------
\* the 403 responses of the servers without Retry-After, with "rate limit"
\* in the body, whose x-ratelimit-remaining is absent or not "0"
C9_SecondaryRateLimit ==
    { Response(403, NoHeaders, BodyRateLimit),
      Response(403, Remaining(<<"5">>) @@ Reset(<<"1", "0">>), BodyRateLimit) }

(* C9: a 403 without Retry-After whose body contains "rate limit" and whose *)
(* x-ratelimit-remaining is absent or not "0" is retried (while retries     *)
(* remain and the deadline is not reached) with the delay                   *)
(* backoff(attempts), limited to the time left, never zero; the n-th such   *)
(* evaluation of a request uses backoff(n).                                 *)
C9_SecondaryRateLimitBackoff ==
    outcome \in C9_SecondaryRateLimit =>
        /\ Retrying =>
              /\ BackoffOfAttempts
              /\ attempts = Len(sleeps) + 1
              /\ decision = Some(CappedByTimeLeft(backoffv[1]))
              /\ decision[1] > 0
        /\ pc = "done" => PolicyStops /\ decision = None

\* the second of two such responses waits backoff(2)
C9_Witness ==
    /\ Retrying
    /\ outcome = Response(403, NoHeaders, BodyRateLimit)
    /\ statuses = <<403, 403>>
    /\ sleeps = <<100>>
    /\ attempts = 2
    /\ decision = Some(1250)

----------------------------------------------------------------------------
(* C10: a 403 with no Retry-After header and no "rate limit" in its body is *)
(* not retried (None, no sleep, PrettyHTTPError raised) unless 403 is in    *)
(* retry_statuses, in which case it is retried (while retries remain and    *)
(* the deadline is not reached) with delay backoff(attempts), limited to    *)
(* the time left.                                                           *)
C10_Plain403 ==
    outcome \in Plain403s =>
        IF 403 \in config.retry_statuses
        THEN /\ Retrying =>
                   /\ BackoffOfAttempts
                   /\ decision = Some(CappedByTimeLeft(backoffv[1]))
             /\ pc = "done" => PolicyStops /\ decision = None
        ELSE /\ pc \in {"handle", "done", "idle"}
             /\ pc = "done" => decision = None
             /\ pc \in {"done", "idle"} =>
                   /\ result = [kind |-> "PrettyHTTPError",
                                outcome |-> outcome, send |-> sends]
                   /\ Len(sleeps) = sends - 1

\* a plain 403 is retried because 403 is among retry_statuses
C10_Witness ==
    /\ Retrying
    /\ outcome \in Plain403s
    /\ 403 \in config.retry_statuses
    /\ attempts = 1
    /\ decision = Some(100)

----------------------------------------------------------------------------
\* the Retrier of a request is created with stop_time = its creation time + T
C11_StopTimeSet ==
    (pc = "idle" /\ pc' = "send") =>
        IF config.total_wait = None THEN stop_time' = None
        ELSE stop_time' = Some(clock' + config.total_wait[1])

\* an evaluation made at or past stop_time returns None, whatever the outcome
C11_EvaluationStops ==
    (/\ pc = "handle"
     /\ IsRequestException(outcome)
     /\ stop_time # None
     /\ clock >= stop_time[1])
        => pc' = "done" /\ decision' = None /\ sleeps' = sleeps

\* no delay is ever returned at or past stop_time
C11_NoDelayPastStopTime ==
    (Retrying /\ stop_time # None) => clock < stop_time[1]

(* C11: with total_wait = T set, stop_time is the Retrier's creation time   *)
(* + T, and an evaluation made when the clock is at or past stop_time       *)
(* returns None whatever the number of retries left and whatever the        *)
(* outcome (also a 403 with Retry-After, or a transport error).             *)
C11_DeadlineStops ==
    /\ [](C11_NoDelayPastStopTime)
    /\ [][C11_StopTimeSet]_vars
    /\ [][C11_EvaluationStops]_vars

\* a 403 with Retry-After is given up at the deadline with a retry left
C11_Witness ==
    /\ pc = "done"
    /\ stop_time # None
    /\ clock = stop_time[1]
    /\ attempts <= config.retries
    /\ outcome.status_code = 403
    /\ "retry-after" \in DOMAIN outcome.headers
    /\ decision = None
    /\ result.kind = "PrettyHTTPError"

----------------------------------------------------------------------------
\* the wait a 403 asks for: Retry-After + 1, or the time to its reset + 1
\* (None when it asks for none)
C12_WaitAsked(o) ==
    IF o \in C7_IntegerRetryAfter
    THEN Some((C7_Seconds(o) + 1) * 1000)
    ELSE IF o \in C8_PrimaryRateLimit
    THEN Some(C8_UntilReset(o))
    ELSE None

\* the last evaluation was that of a 403 asking for more than the time left
C12_AsksBeyondDeadline ==
    /\ stop_time # None
    /\ clock < stop_time[1]
    /\ attempts <= config.retries
    /\ C12_WaitAsked(outcome) # None
    /\ C12_WaitAsked(outcome)[1] > stop_time[1] - clock

(* C12: when the wait asked for by a 403 (its Retry-After, or the time to   *)
(* its x-ratelimit-reset) exceeds the time left under total_wait, the       *)
(* request is not retried: no sleep happens and PrettyHTTPError for that    *)
(* 403 is raised at once.                                                   *)
C12_NoRetryBeyondDeadline ==
    (pc \in {"sleep", "done"} /\ C12_AsksBeyondDeadline) =>
        /\ pc = "done"
        /\ decision = None
        /\ result = [kind |-> "PrettyHTTPError", outcome |-> outcome,
                     send |-> sends]

----------------------------------------------------------------------------
\* a 403 whose Retry-After exceeds total_wait
C13_LongRetryAfter(o) ==
    /\ o \in C7_IntegerRetryAfter
    /\ config.total_wait # None
    /\ (C7_Seconds(o) + 1) * 1000 > config.total_wait[1]

\* as first response it is answered by one sleep for the time left
C13_SleepsTimeLeft ==
    (Retrying /\ sends = 1 /\ C13_LongRetryAfter(outcome)) =>
        /\ sleeps = <<>>
        /\ decision = Some(stop_time[1] - clock)
        /\ decision[1] > 0

\* that sleep ends at stop_time and one send follows
C13_SleepEndsAtStopTime ==
    (Retrying /\ sends = 1 /\ C13_LongRetryAfter(outcome)) =>
        /\ pc' = "send"
        /\ Len(sleeps') = 1
        /\ clock' = stop_time[1]
        /\ sends' = 1

\* from stop_time on a failed send ends the request with its own error
C13_ThenNoMoreSleep ==
    (/\ pc = "handle"
     /\ stop_time # None
     /\ clock >= stop_time[1]
     /\ IsRequestException(outcome))
        => /\ pc' = "done"
           /\ sleeps' = sleeps
           /\ sends' = sends
           /\ result' = [kind |-> RaisedError(outcome), outcome |-> outcome,
                         send |-> sends]

----------------------------------------------------------------------------
\* every send made so far failed with a status of retry_statuses
C14_AllRetryable ==
    \A i \in 1..Len(statuses) : statuses[i] \in config.retry_statuses

\* without total_wait there is no stop_time
C14_NoDeadline ==
    config.total_wait = None => stop_time = None

\* and only the retry count stops the retrying of retryable failures
C14_OnlyCountStops ==
    (/\ config.total_wait = None
     /\ pc = "done"
     /\ IsRequestException(outcome)
     /\ C14_AllRetryable)
        => /\ attempts = config.retries + 1
           /\ sends = config.retries + 1
           /\ Len(sleeps) = config.retries
           /\ \A i \in 1..Len(sleeps) :
                 sleeps[i] = backoff(config, i, 0)

\* base 2 and backoff_max = 3: 0.1, 2, then 4, 8 and 16 cut to 3
C14_Clamped ==
    (/\ config = CfgLowMax(5)
     /\ pc = "done"
     /\ IsRequestException(outcome)
     /\ C14_AllRetryable)
        => sleeps = <<100, 2000, 3000, 3000, 3000>>

(* C14: with total_wait = None there is no deadline and only the retry      *)
(* count ends the retrying: a request whose every send fails with a         *)
(* retryable status makes exactly `retries` sleeps and `retries` + 1 sends, *)
(* with delays backoff(1)..backoff(retries), the later ones clamped to      *)
(* backoff_max.                                                             *)
C14_NoTotalWait ==
    /\ C14_NoDeadline
    /\ C14_OnlyCountStops
    /\ C14_Clamped

\* six 500s under retries = 5 and backoff_max = 3
C14_Witness ==
    /\ config = CfgLowMax(5)
    /\ pc = "done"
    /\ statuses = <<500, 500, 500, 500, 500, 500>>
    /\ sleeps = <<100, 2000, 3000, 3000, 3000>>
    /\ clock >= 11100
    /\ result.kind = "PrettyHTTPError"

----------------------------------------------------------------------------
\* a step that is the start of a request() / a session.send
C15_Starts == pc = "idle" /\ pc' = "send"

C15_Sends == pc = "send" /\ pc' = "handle"

\* the time since the last mutating send, at the start of a request
C15_Elapsed == clock - last_mutation[1]

(* C15: a POST, PATCH, PUT or DELETE started when last_mutation is set and  *)
(* less than mutation_delay has elapsed since it sleeps exactly             *)
(* mutation_delay - elapsed before its first send; when at least            *)
(* mutation_delay has elapsed, or last_mutation is None, it does not sleep  *)
(* for pacing.                                                              *)
C15_PacingSleep ==
    [][ (C15_Starts /\ method' \in {"POST", "PATCH", "PUT", "DELETE"}) =>
          /\ sends' = 0
          /\ clock' = clock + pacing'
          /\ IF last_mutation # None /\ C15_Elapsed < mutation_delay
             THEN pacing' = mutation_delay - C15_Elapsed
             ELSE pacing' = 0 ]_vars

\* a POST started 0.6 s after the last mutating send has slept 0.4 s
C15_Witness ==
    /\ pc = "send"
    /\ sends = 0
    /\ method = "POST"
    /\ pacing = 400
    /\ last_mutation # None
    /\ clock - last_mutation[1] = mutation_delay

----------------------------------------------------------------------------
\* last_mutation is the time of the latest mutating send: it is set by every
\* send of a mutating request and changed by nothing else
C16_LastMutationIsLatestSend ==
    /\ (C15_Sends /\ method \in MUTATING_METHODS) =>
            last_mutation' = Some(clock)
    /\ ~(C15_Sends /\ method \in MUTATING_METHODS) =>
            last_mutation' = last_mutation

\* the first send of a mutating request is made mutation_delay or more
\* after it
C16_FirstSendSpaced ==
    (/\ C15_Sends
     /\ sends = 0
     /\ method \in MUTATING_METHODS
     /\ last_mutation # None)
        => clock - last_mutation[1] >= mutation_delay

(* C16: on a Client used by one caller at a time, the first send of every   *)
(* mutating request() happens at least mutation_delay after the most recent *)
(* earlier send of a mutating request, whatever GETs, retries or failed     *)
(* requests lie in between.                                                 *)
C16_MutationsSpaced ==
    /\ [][C16_LastMutationIsLatestSend]_vars
    /\ [][C16_FirstSendSpaced]_vars

\* the third request, a POST, right after its first send, which was held
\* back by a pacing sleep
C16_Witness ==
    /\ pc = "handle"
    /\ sends = 1
    /\ method = "POST"
    /\ budget = MaxRequests - 3
    /\ pacing \in {200, 600}
    /\ last_mutation = Some(clock) \/ last_mutation = Some(clock - 400)

----------------------------------------------------------------------------
\* a step of a request whose method is not a mutating one
C17_InGet == pc # "idle" /\ method \notin MUTATING_METHODS

(* C17: a GET never sleeps for pacing and leaves last_mutation unchanged,   *)
(* whether it succeeds, is retried or fails; so a GET between two mutating  *)
(* requests does not change the time from which the second one is paced.    *)
C17_GetLeavesPacingAlone ==
    /\ [][ (C15_Starts /\ method' = "GET") =>
              pacing' = 0 /\ clock' = clock /\ last_mutation' = last_mutation
       ]_vars
    /\ [][ C17_InGet => last_mutation' = last_mutation ]_vars
    /\ []((pc # "idle" /\ method = "GET") => pacing = 0)

\* a POST, then a GET, then a POST started 0.1 s after the first POST's send
\* that sleeps the 0.9 s left
C17_Witness ==
    /\ pc = "send"
    /\ sends = 0
    /\ method = "POST"
    /\ budget = MaxRequests - 3
    /\ statuses = <<>>
    /\ pacing = 900
    /\ last_mutation = Some(clock - mutation_delay)

----------------------------------------------------------------------------
\* request() has ended by raising
C19_GaveUp == pc = "done" /\ result.kind \notin {"none", "return"}

(* C19: when request() gives up, the error it raises is the one of the last *)
(* send made, carrying that send's response or exception, never the one of  *)
(* an earlier attempt.                                                      *)
C19_LastErrorRaised ==
    C19_GaveUp =>
        /\ sends = Len(statuses)
        /\ result.send = sends
        /\ result.outcome = outcome
        /\ result.outcome.status_code = statuses[sends]
        /\ result.kind = IF outcome.kind = "response"
                         THEN "PrettyHTTPError" ELSE outcome.kind

\* a 500 and a 403 are retried, the 404 of the third send is raised
C19_Witness ==
    /\ C19_GaveUp
    /\ statuses = <<500, 403, 404>>
    /\ Len(sleeps) = 2
    /\ result.send = 3
    /\ result.outcome.status_code = 404
    /\ result.kind = "PrettyHTTPError"

----------------------------------------------------------------------------
\* a failure that has a response is raised as PrettyHTTPError with it
C20_RaisedPretty ==
    (/\ pc = "done"
     /\ outcome.kind = "response"
     /\ outcome.status_code >= 400)
        => result = [kind |-> "PrettyHTTPError", outcome |-> outcome,
                     send |-> sends]

\* the message of the error raised, and what follows its first line
C20_Message == PrettyHTTPError_str(result.outcome)

C20_AfterFirstLine == SubSeq(C20_Message, 8, Len(C20_Message))

\* the first line holds the status, the reason and the URL
C20_FirstLine ==
    SubSeq(C20_Message, 1, 7) =
        <<result.outcome.status_code, " ",
          IF result.outcome.status_code \in 400..499
          THEN "Client Error" ELSE "Server Error",
          ": ", "{0.reason}", " for URL: ", "{0.url}">>

\* the body follows: JSON in the layout of indent=4, other text as it is,
\* nothing for a blank body
C20_Body ==
    /\ result.outcome.text = BodyJson =>
          C20_AfterFirstLine =
              <<"\n\n", "[", "\n", " ", " ", " ", " ", "1", ",",
                "\n", " ", " ", " ", " ", "2", "0", "\n", "]">>
    /\ result.outcome.text = BodyBlank => C20_AfterFirstLine = <<>>
    /\ result.outcome.text \in {BodyOther, BodyRateLimit, BodyCapitals} =>
          C20_AfterFirstLine = <<"\n\n">> \o result.outcome.text
    /\ result.outcome.text \in
          {BodyJson, BodyBlank, BodyOther, BodyRateLimit, BodyCapitals}

(* C20: every terminal failure that has a response with status >= 400 is    *)
(* raised as PrettyHTTPError carrying that response; its message holds the  *)
(* status, the reason and the URL, followed by the body: pretty-printed     *)
(* JSON when the body is JSON, the raw text otherwise, nothing when the     *)
(* body is blank.                                                           *)
C20_PrettyHTTPError ==
    /\ C20_RaisedPretty
    /\ (pc = "done" /\ result.kind = "PrettyHTTPError") =>
            C20_FirstLine /\ C20_Body

\* a 404 with a JSON body raised after a retry
C20_Witness ==
    /\ pc = "done"
    /\ sends = 2
    /\ result.kind = "PrettyHTTPError"
    /\ result.outcome = Response(404, NoHeaders, BodyJson)
    /\ Len(C20_Message) = 25
    /\ C20_Message[3] = "Client Error"
    /\ C20_Message[9] = "["

----------------------------------------------------------------------------
(* C18: when two mutating request() calls run at the same time on one       *)
(* Client, the reads and updates of last_mutation are synchronized, so that *)
(* the two cannot both read the same stale timestamp and make their sends   *)
(* less than mutation_delay apart.                                          *)
C18_ConcurrentSendsSpaced ==
    \A a, b \in Callers :
        (a # b /\ callers[a].sent # None /\ callers[b].sent # None) =>
            \/ callers[a].sent[1] - callers[b].sent[1] >= mutation_delay
            \/ callers[b].sent[1] - callers[a].sent[1] >= mutation_delay

----------------------------------------------------------------------------
\* a request() call is under way / has returned or raised
C21_InRequest == pc \in {"send", "handle", "sleep"}

C21_Ended == pc = "done" /\ result.kind # "none"

(* C21: every request() call terminates, by returning or raising, after at  *)
(* most retries + 1 sends, for any retries, any total_wait and any          *)
(* behaviour of the server, provided each send and each sleep returns.      *)
C21_Terminates ==
    /\ [](sends <= config.retries + 1)
    /\ C21_InRequest ~> C21_Ended

\* a request under total_wait that ended after all its retries + 1 sends
\* failed at the transport level
C21_Witness ==
    /\ C21_Ended
    /\ config.total_wait # None
    /\ config.retries = MaxRetries
    /\ sends = config.retries + 1
    /\ outcome.kind = "RequestException"

----------------------------------------------------------------------------
\* the number of pages paginate() is done with
C22_PagesDone ==
    IF pager.pc \in {"get", "raised"} THEN Len(pager.requests) - 1
    ELSE Len(pager.requests)

\* the indices of the list-valued fields of a JSON object
C22_ListFieldsOf(data) ==
    {i \in 1..Len(data.fields) : data.fields[i].list}

\* the items of a page: the list itself, or the one list of the object
C22_ItemsOf(data) ==
    IF data.type = "list" THEN data.items
    ELSE data.fields[CHOOSE i \in C22_ListFieldsOf(data) : TRUE].value

RECURSIVE C22_ItemsUpTo(_, _)
\* the items of the first n pages of a site, in page order
C22_ItemsUpTo(site, n) ==
    IF n = 0 THEN <<>>
    ELSE C22_ItemsUpTo(site, n - 1) \o C22_ItemsOf(site[n])

\* the k-th request is a GET; the first is for the caller's path with the
\* caller's params, the k-th for the link of page k-1 with no params
C22_Requests ==
    /\ Len(pager.requests) <= Len(pager.site)
    /\ \A k \in 1..Len(pager.requests) :
          pager.requests[k] =
              [method |-> "GET", path |-> Urls[k],
               params |-> IF k = 1 THEN pager.given ELSE None]

\* what has been yielded is what the pages done with hold, in page order
C22_Yielded ==
    IF pager.raw
    THEN pager.yielded = [k \in 1..C22_PagesDone |-> Urls[k]]
    ELSE pager.yielded = C22_ItemsUpTo(pager.site, C22_PagesDone)

\* one get() at a time, each in its own request(), and the end only at a
\* page without "next" link
C22_OneAtATime ==
    /\ pc # "idle" => pager.pc = "get" /\ method = "GET"
    /\ pager.pc = "exhausted" =>
          /\ Len(pager.requests) = Len(pager.site)
          /\ pager.path = None
    /\ pager.pc \in {"fetch", "get"} =>
          pager.path = Some(Urls[C22_PagesDone + 1])

(* C22: paginate() fetches one page at a time with GET, yields the items of *)
(* each page in page order, follows the "next" link of each response and    *)
(* stops when a response has none; the path and params given by the caller  *)
(* are used for the first request only, later requests use the link URL     *)
(* with no params.                                                          *)
C22_Paginate ==
    pager.pc # "off" => C22_Requests /\ C22_Yielded /\ C22_OneAtATime

\* three pages fetched with params on the first only, all items yielded
C22_Witness ==
    /\ pager.pc = "exhausted"
    /\ ~pager.raw
    /\ pager.given = Some("superfluous=yes")
    /\ Len(pager.requests) = 3
    /\ pager.requests[3] = [method |-> "GET", path |-> "widgets?page=3",
                            params |-> None]
    /\ pager.yielded = <<1, 2, 3, 4, 1, 2>>

----------------------------------------------------------------------------
\* get() has returned a page whose body is a JSON object, raw=False
C23_ObjectPage ==
    /\ pager.pc = "get"
    /\ pc = "done"
    /\ result.kind = "return"
    /\ ~pager.raw
    /\ PageData(pager.site, pager.path[1]).type = "dict"

\* the body of that page
C23_Data == PageData(pager.site, pager.path[1])

\* the step that follows: the one list is yielded, or ValueError is raised
C23_OneListOrError ==
    C23_ObjectPage =>
        IF Cardinality(C22_ListFieldsOf(C23_Data)) = 1
        THEN /\ pager'.yielded = pager.yielded \o C22_ItemsOf(C23_Data)
             /\ pager'.pc \in {"fetch", "exhausted"}
             /\ pager'.error = "none"
        ELSE /\ pager'.pc = "raised"
             /\ pager'.error = "ValueError"
             /\ pager'.yielded = pager.yielded

\* when ValueError is raised the items of the earlier pages were yielded
C23_EarlierYielded ==
    (pager.pc = "raised" /\ pager.error = "ValueError") =>
        /\ ~pager.raw
        /\ pager.site[Len(pager.requests)].type = "dict"
        /\ Cardinality(C22_ListFieldsOf(pager.site[Len(pager.requests)])) # 1
        /\ pager.yielded =
              C22_ItemsUpTo(pager.site, Len(pager.requests) - 1)

(* C23: for a page whose body is a JSON object, paginate() (raw=False)      *)
(* yields the elements of its single list-valued field, and raises          *)
(* ValueError when the number of list-valued fields is not exactly one      *)
(* (none, or more than one); the items of earlier pages have already been   *)
(* yielded when this happens.                                               *)
C23_UniqueListField ==
    [](C23_EarlierYielded) /\ [][C23_OneListOrError]_vars

\* an object with two lists as third page, after a list and an object with
\* one list
C23_Witness ==
    /\ pager.pc = "raised"
    /\ pager.error = "ValueError"
    /\ Len(pager.requests) = 3
    /\ Cardinality(C22_ListFieldsOf(pager.site[3])) = 2
    /\ pager.yielded = <<1, 2, 3, 4>>

----------------------------------------------------------------------------
\* request() has left its loop with a response that did not raise
C24_Succeeded == pc = "done" /\ result.kind = "return"

\* the body of that response is blank: nothing but whitespace
C24_BlankBody ==
    \A i \in 1..Len(result.outcome.text) : result.outcome.text[i] = " "

(* C24: a successful request() returns the Response object when raw or      *)
(* stream is set; otherwise None when the status is 204 or the body is      *)
(* blank (only whitespace); otherwise the body decoded as JSON.             *)
C24_ReturnValue ==
    C24_Succeeded =>
        IF options.raw \/ options.stream
        THEN /\ returned.type = "Response"
             /\ returned.response = result.outcome
        ELSE IF result.outcome.status_code = 204 \/ C24_BlankBody
        THEN returned.type = "None"
        ELSE /\ returned.type \in {"json", "JSONDecodeError"}
             /\ result.outcome.text = BodyJson =>
                   /\ returned.type = "json"
                   /\ returned.json = [ok |-> TRUE, type |-> "array",
                                       items |-> << <<"1">>, <<"2", "0">> >>]
             /\ returned.type = "JSONDecodeError" =>
                   result.outcome.text = BodyOther

\* a 204 that carries a JSON body, got on the second send, gives None
C24_Witness ==
    /\ C24_Succeeded
    /\ options = PlainCall
    /\ sends = 2
    /\ result.outcome = Response(204, NoHeaders, BodyJson)
    /\ returned.type = "None"

----------------------------------------------------------------------------
\* the 403 responses of the servers whose Retry-After is not an integer, or
\* that signal the primary rate limit with x-ratelimit-reset missing or
\* not an integer
C25_Malformed ==
    { Response(403, RetryAfter(<<"1", "h">>), BodyOther),
      Response(403, Remaining(<<"0">>) @@ Reset(<<"x">>), BodyRateLimit),
      Response(403, Remaining(<<"0">>), BodyRateLimit) }

(* C25: a 403 whose Retry-After is not an integer, or a 403 rate-limit      *)
(* response with x-ratelimit-remaining "0" whose x-ratelimit-reset is       *)
(* missing or not an integer, never makes the Retrier raise: the request is *)
(* retried (while retries remain and the deadline is not reached) and the   *)
(* delay slept equals backoff(attempts), limited to the time left.          *)
C25_MalformedRetried ==
    outcome \in C25_Malformed =>
        /\ pc \in {"sleep", "done"} => attempts = sends
        /\ Retrying =>
              /\ BackoffOfAttempts
              /\ decision = Some(CappedByTimeLeft(backoffv[1]))
        /\ pc = "done" =>
              /\ PolicyStops
              /\ decision = None
              /\ result = [kind |-> "PrettyHTTPError", outcome |-> outcome,
                           send |-> sends]

\* Retry-After: "1h" on the first send: a sleep of backoff(1) = 0.1 s
C25_Witness ==
    /\ Retrying
    /\ outcome = Response(403, RetryAfter(<<"1", "h">>), BodyOther)
    /\ attempts = 1
    /\ decision = Some(100)
    /\ stop_time = None

----------------------------------------------------------------------------
(* C26 as stated: on a 403 with a non-integer Retry-After, or with a        *)
(* missing or non-integer x-ratelimit-reset on the primary rate-limit path, *)
(* the Retrier returns 0 and the retry is immediate.                        *)
C26_DegradesToZero ==
    (Retrying /\ outcome \in C25_Malformed) => decision = Some(0)

(* C26 amended: on such a 403 the header contributes a delay of 0 and the   *)
(* Retrier returns max(0, backoff(attempts)) = backoff(attempts), limited   *)
(* to the time left: the retry is not immediate.                            *)
C26_DegradesToBackoff ==
    (Retrying /\ outcome \in C25_Malformed) =>
        /\ Delay403(config, outcome, backoffv[1], clock) = Some(0)
        /\ decision = Some(CappedByTimeLeft(Max(0, backoffv[1])))
        /\ decision[1] > 0

\* a missing x-ratelimit-reset on the second failure: backoff(2), not 0
C26_Witness ==
    /\ Retrying
    /\ outcome = Response(403, Remaining(<<"0">>), BodyRateLimit)
    /\ attempts = 2
    /\ backoffv = Some(1250)
    /\ decision = Some(1250)

----------------------------------------------------------------------------
(* C27 as stated: whenever a 403 leads to a retry the delay is at least     *)
(* backoff(attempts), whatever the headers say and whatever time is left    *)
(* under total_wait.                                                        *)
C27_NeverBelowBackoff ==
    (Retrying /\ outcome.status_code = 403) => decision[1] >= backoffv[1]

(* C27 amended: whenever a 403 leads to a retry the delay is at least       *)
(* backoff(attempts), whatever the headers say, unless less time than that  *)
(* is left under total_wait: then it is the time left.                      *)
C27_BackoffFloor ==
    (Retrying /\ outcome.status_code = 403) =>
        /\ BackoffOfAttempts
        /\ decision[1] >= CappedByTimeLeft(backoffv[1])
        /\ decision[1] < backoffv[1] =>
              /\ stop_time # None
              /\ decision[1] = stop_time[1] - clock

\* Retry-After: 0 asks for 1 s on the second failure, backoff(2) = 1.25 s
\* is slept
C27_Witness ==
    /\ Retrying
    /\ outcome = Response(403, RetryAfter(<<"0">>), BodyOther)
    /\ attempts = 2
    /\ backoffv = Some(1250)
    /\ decision = Some(1250)

----------------------------------------------------------------------------
RECURSIVE C28_Sum(_)
\* the sum of a sequence of numbers
C28_Sum(q) == IF q = <<>> THEN 0 ELSE q[1] + C28_Sum(Tail(q))

\* a delay returned is >= 0 and at most the time left at the evaluation
C28_DelayInRange ==
    Retrying =>
        /\ decision[1] >= 0
        /\ stop_time # None => decision[1] <= stop_time[1] - clock

\* the retry sleeps of a request add up to total_wait at most
C28_SleepsWithinTotalWait ==
    (pc # "idle" /\ config.total_wait # None) =>
        C28_Sum(sleeps) + (IF Retrying THEN decision[1] ELSE 0)
            <= config.total_wait[1]

(* C28: every delay returned by the Retrier is >= 0 (also when              *)
(* x-ratelimit-reset lies in the past), and when total_wait is set it is at *)
(* most stop_time - now at the evaluation; hence the sum of all retry       *)
(* sleeps of one request never exceeds total_wait.                          *)
C28_DelayBounds ==
    C28_DelayInRange /\ C28_SleepsWithinTotalWait

\* a primary rate limit whose reset time 0 is more than a second in the
\* past: R - now + 1 < 0, the delay is backoff(2)
C28_Witness ==
    /\ Retrying
    /\ outcome = Response(403, Remaining(<<"0">>) @@ Reset(<<"0">>),
                          BodyRateLimit)
    /\ clock > 1000
    /\ stop_time # None
    /\ C28_Sum(sleeps) = 1000
    /\ decision = Some(1250)

----------------------------------------------------------------------------
\* the configuration of test_retry_request_errors, and one with jitter and
\* a backoff_max out of reach
C29_TestConfig ==
    RetryConfig(10, 3000, 2000, 0, 120000, Some(300000), DefaultRetryStatuses)

C29_JitterConfig ==
    RetryConfig(10, 1000, 2000, 300, 120000, Some(300000),
                DefaultRetryStatuses)

\* backoff(1), backoff(2), ... of the configurations explored, jitter apart
C29_Table ==
    IF config.backoff_max = 200 THEN <<300, 200, 200, 200, 200, 200, 200>>
    ELSE IF config.backoff_max = 3000
    THEN <<100, 2000, 3000, 3000, 3000, 3000, 3000>>
    ELSE IF config.backoff_max = 2100
    THEN <<100, 2000, 2100, 2100, 2100, 2100, 2100>>
    ELSE IF config.backoff_base = 2000
    THEN <<100, 2000, 4000, 8000, 16000, 32000, 64000>>
    ELSE <<100, 1250, 1562, 1952, 2440, 3050, 3812>>

\* the backoff computed by the last evaluation is the one of the table,
\* plus the jitter where there is some, clamped
C29_Computed ==
    backoffv # None =>
        /\ attempts < 2 => backoffv[1] = config.backoff_factor \div 10
        /\ config.backoff_jitter = 0 => backoffv[1] = C29_Table[attempts]
        /\ (config.backoff_jitter > 0 /\ attempts >= 2) =>
              \E rnd \in RandomDraws :
                  backoffv[1] =
                      Min(C29_Table[attempts]
                              + (rnd * config.backoff_jitter) \div 1000,
                          config.backoff_max)

\* 0.3, 6, 12, 24 for factor 3 and base 2; the jitter is added
C29_Values ==
    /\ [k \in 1..4 |-> backoff(C29_TestConfig, k, 500)]
           = <<300, 6000, 12000, 24000>>
    /\ [k \in 1..3 |-> backoff(C29_JitterConfig, k, 500)]
           = <<100, 2150, 4150>>
    /\ backoff(C29_JitterConfig, 2, 0) = 2000
    /\ backoff(C29_JitterConfig, 2, 999) = 2299

\* with jitter 0, backoff(k+1) = backoff_base * backoff(k) from k = 2 on,
\* until backoff_max clamps it
C29_Growth ==
    config.backoff_jitter = 0 =>
        \A k \in 2..6 :
            backoff(config, k, 0) < config.backoff_max =>
                backoff(config, k + 1, 0) =
                    Min((backoff(config, k, 0) * config.backoff_base)
                            \div 1000,
                        config.backoff_max)

(* C29: RetryConfig.backoff(k), k >= 1, is backoff_factor * 0.1 when k < 2; *)
(* otherwise backoff_factor * backoff_base^(k-1), plus random() *           *)
(* backoff_jitter added (not multiplied) only when backoff_jitter > 0, then *)
(* clamped to [0, backoff_max]; so with jitter 0, backoff(k+1) =            *)
(* backoff_base * backoff(k) for k >= 2 until backoff_max clamps it.        *)
C29_BackoffFormula ==
    C29_Computed /\ C29_Values /\ C29_Growth

\* the second failure under jitter 0.3 and backoff_max 2.1: 2 + 0.15 is
\* clamped to 2.1
C29_Witness ==
    /\ Retrying
    /\ config.backoff_jitter = 300
    /\ attempts = 2
    /\ backoffv = Some(2100)
    /\ decision = Some(2100)

----------------------------------------------------------------------------
(* C30: every value computed by RetryConfig.backoff(k), for every k >= 1    *)
(* including the first retry (k = 1) and for every non-negative             *)
(* configuration, lies in [0, backoff_max].                                 *)
C30_WithinBackoffMax ==
    backoffv # None =>
        /\ 0 <= backoffv[1]
        /\ backoffv[1] <= config.backoff_max

----------------------------------------------------------------------------
\* a step that is a call of the Retrier
C31_Evaluates == pc = "handle" /\ IsRequestException(outcome) /\ pc' # pc

\* while a retry is pending every send so far has failed and was counted,
\* and the backoff is the one of that count
C31_BackoffOfNthFailure ==
    Retrying =>
        /\ attempts = sends
        /\ backoffv # None
        /\ \E rnd \in RandomDraws : backoffv[1] = backoff(config, sends, rnd)

(* C31: within one request Retrier.attempts grows by exactly 1 on every     *)
(* call of the Retrier, whatever the outcome and the decision, and no other *)
(* step of the request changes it; so the backoff of the n-th failure is    *)
(* backoff(n), also when the earlier failures were of another kind.         *)
C31_MonotonicCounting ==
    /\ [][C31_Evaluates => attempts' = attempts + 1]_vars
    /\ [][~C31_Evaluates /\ ~C15_Starts => attempts' = attempts]_vars
    /\ []C31_BackoffOfNthFailure

\* test_retry_intermixed_5xx_and_rate_limit: two 500s, then two 403s with
\* Retry-After: 6, slept 0.1, 2, 7 and backoff(4) = 8 s
C31_Witness ==
    /\ pc = "send"
    /\ config = CfgIntermixed
    /\ statuses = <<500, 500, 403, 403>>
    /\ sleeps = <<100, 2000, 7000, 8000>>
    /\ attempts = 4

----------------------------------------------------------------------------
\* thread t holds a Retrier: it is past the creation and has not left
\* request()
C32_InLoop(t) == callers[t].pc \in {"stamp", "send", "backoff"}

\* a step in which thread t creates its Retrier
C32_Creates(t) == callers[t].pc = "create" /\ callers'[t].pc = "stamp"

\* the Retrier of a call counts the failed sends of that call only, and its
\* deadline is total_wait after a time that is not before the end of the
\* pacing sleep of that call
C32_RetrierOfThisCall ==
    \A t \in Callers :
        C32_InLoop(t) =>
            /\ callers[t].attempts = callers[t].failures
            /\ IF config.total_wait = None
               THEN callers[t].stop_time = None
               ELSE /\ callers[t].stop_time # None
                    /\ callers[t].stop_time[1] - config.total_wait[1]
                           >= callers[t].wake

\* the creation starts from attempts = 0 and the time of the creation
C32_CreatedFresh ==
    \A t \in Callers :
        C32_Creates(t) =>
            /\ callers'[t].attempts = 0
            /\ callers'[t].stop_time =
                   IF config.total_wait = None THEN None
                   ELSE Some(clock + config.total_wait[1])
            /\ clock >= callers[t].wake

\* what another thread does, and the passing of time, leave it alone
C32_NotShared ==
    \A t \in Callers :
        callers'[t].pc = callers[t].pc =>
            /\ callers'[t].attempts = callers[t].attempts
            /\ callers'[t].stop_time = callers[t].stop_time

(* C32: each request() call creates its own Retrier after the pacing sleep: *)
(* attempts starts at 0 and stop_time is the creation time + total_wait, so *)
(* the pacing sleep does not consume total_wait; no retry count or deadline *)
(* carries over from one request to another on the same Client, be they     *)
(* made one after the other or at the same time.                            *)
C32_OwnRetrier ==
    /\ []C32_RetrierOfThisCall
    /\ [][C32_CreatedFresh]_vars
    /\ [][C32_NotShared]_vars

\* thread A is in its second call, which slept for pacing, after a first
\* call that failed twice, while thread B waits to retry
C32_Witness ==
    /\ config.total_wait # None
    /\ callers["A"].calls = 2
    /\ callers["A"].pc = "send"
    /\ callers["A"].attempts = 0
    /\ callers["A"].wake > 0
    /\ callers["A"].stop_time = Some(callers["A"].wake + config.total_wait[1])
    /\ callers["B"].pc = "backoff"
    /\ callers["B"].attempts = 1

----------------------------------------------------------------------------
\* once a mutating request has sent, last_mutation is the time at which its
\* latest send was called, during the send, after it and after the request
C33_StampedBeforeSend ==
    (method \in MUTATING_METHODS /\ sent_at # <<>>) =>
        last_mutation = Some(sent_at[Len(sent_at)])

\* last_mutation stays set and does not go back
C33_NeverDecreases ==
    last_mutation # None =>
        /\ last_mutation' # None
        /\ last_mutation'[1] >= last_mutation[1]

(* C33: for a mutating request last_mutation is set to the current time     *)
(* right before every send, retry sends included, and not after the         *)
(* response; so it never decreases and, once set, equals the time of the    *)
(* latest send of a mutating request.                                       *)
C33_LastMutationStamped ==
    /\ []C33_StampedBeforeSend
    /\ [][C15_Sends /\ method \in MUTATING_METHODS =>
              last_mutation' = Some(clock)]_vars
    /\ [][C33_NeverDecreases]_vars

\* the retry send of a POST, called at 0.5 s, has returned at 0.9 s
C33_Witness ==
    /\ pc = "handle"
    /\ method = "POST"
    /\ sent_at = <<0, 500>>
    /\ clock = 900
    /\ last_mutation = Some(500)

----------------------------------------------------------------------------
\* a mutating request() is called right after another mutating request(),
\* whose sends are still recorded
C34_MutationAfterMutation ==
    /\ C15_Starts
    /\ method' \in MUTATING_METHODS
    /\ method \in MUTATING_METHODS
    /\ sent_at # <<>>

\* the time at which the pacing sleep of the step is over
C34_PacedFrom(t) == clock' = Max(clock, t + mutation_delay)

(* C34 as stated: the pacing of a mutating call is measured from the start  *)
(* of the previous mutating call: when that call was slow or retried, the   *)
(* next one waits until mutation_delay after its first send, not after its  *)
(* later retry sends nor after its completion.                              *)
C34_PacedFromFirstSend ==
    [][C34_MutationAfterMutation => C34_PacedFrom(sent_at[1])]_vars

(* C34 amended: the pacing of a mutating call is measured from the time at  *)
(* which the latest send of the previous mutating call was called, which is *)
(* its last retry send when it was retried, and not from its completion.    *)
C34_PacedFromLatestSend ==
    [][C34_MutationAfterMutation =>
          C34_PacedFrom(sent_at[Len(sent_at)])]_vars

\* a POST sent at 0 and again at 0.1 s, then a POST called at once: it has
\* slept until 1.1 s
C34_Witness ==
    /\ pc = "send"
    /\ sends = 0
    /\ method = "POST"
    /\ budget = MaxRequests - 2
    /\ last_mutation = Some(100)
    /\ pacing = 1000
    /\ clock = 1100

----------------------------------------------------------------------------
\* sends, Retrier calls and retry sleeps alternate: where the request is
\* tells how many of each there have been
C35_Alternate ==
    /\ Len(sent_at) = sends
    /\ pc = "send" => sends = Len(sleeps) /\ attempts = sends
    /\ pc = "handle" => sends = Len(sleeps) + 1 /\ attempts = sends - 1
    /\ pc = "sleep" => sends = Len(sleeps) + 1 /\ attempts = sends
    /\ pc = "done" =>
          /\ sends = Len(sleeps) + 1
          /\ attempts = IF result.kind \in {"return", "InvalidSchema"}
                        THEN sends - 1 ELSE sends

\* a send is called only when the one before it has returned and the sleep
\* after it is over
C35_NoOverlap ==
    \A i \in 1..Len(sent_at) - 1 :
        sent_at[i + 1] >= sent_at[i] + sleeps[i]

\* a retry sleep leads to a send and a send to its handling, one at a time
C35_OneAtATime ==
    /\ pc = "sleep" => pc' = "send" /\ sends' = sends
    /\ pc = "send" => pc' = "handle" /\ sends' = sends + 1
    /\ pc = "handle" => pc' \in {"sleep", "done"} /\ sends' = sends

(* C35: the retries of one request are strictly sequential: every call of   *)
(* the Retrier follows exactly one finished send, every retry sleep is      *)
(* followed by exactly one send, and no two sends of the request overlap;   *)
(* so when the request ends the number of sends is the number of retry      *)
(* sleeps + 1.                                                              *)
C35_Sequential ==
    /\ [](C35_Alternate /\ C35_NoOverlap)
    /\ [][C35_OneAtATime]_vars

\* three sends of 0.4 s each with the sleeps of 0.1 s and 1.25 s between
C35_Witness ==
    /\ pc = "done"
    /\ sends = 3
    /\ sleeps = <<100, 1250>>
    /\ sent_at = <<0, 500, 2150>>
    /\ clock = 2550

----------------------------------------------------------------------------
\* the sends of the request called at or after stop_time
C36_LateSends ==
    IF stop_time = None THEN {}
    ELSE {i \in 1..Len(sent_at) : sent_at[i] >= stop_time[1]}

\* the delay of the pending retry was cut to the time left: without the
\* limit it would have been longer
C36_Truncated ==
    /\ Retrying
    /\ stop_time # None
    /\ Classify(config, ResponseOf(outcome), backoffv[1], clock)[1]
          > stop_time[1] - clock

\* the sleeps of the request that ended at stop_time or later
C36_SleepsToStopTime ==
    IF stop_time = None THEN {}
    ELSE {i \in 1..Len(sleeps) :
            i + 1 <= Len(sent_at) /\ sent_at[i + 1] >= stop_time[1]}

\* at most one send is called at or after stop_time; it is the last send
\* and no retry follows it; a sleep that reaches stop_time is the last sleep
C36_OneLateSend ==
    /\ Cardinality(C36_LateSends) <= 1
    /\ \A i \in C36_LateSends :
          /\ i = sends
          /\ pc \in {"handle", "done", "idle"}
          /\ (pc \in {"done", "idle"} /\ IsRequestException(outcome)) =>
                result = [kind |-> RaisedError(outcome), outcome |-> outcome,
                          send |-> sends]
    /\ \A i \in C36_SleepsToStopTime : i = Len(sleeps)
    /\ (pc = "send" /\ stop_time # None /\ clock >= stop_time[1]) =>
          attempts = Len(sleeps)

\* a truncated sleep ends at stop_time and the next send is called then
C36_TruncatedEndsAtStopTime ==
    C36_Truncated =>
        /\ decision = Some(stop_time[1] - clock)
        /\ pc' = "send"
        /\ clock' = stop_time[1]

(* C36: when total_wait is set and the Retrier truncates a delay to the     *)
(* time left before stop_time, that sleep is the last sleep of the request: *)
(* exactly one more send follows and, if it fails, the request ends with    *)
(* its error; so at most one send of a request is called at or after        *)
(* stop_time.                                                               *)
C36_TruncatedSleepIsLast ==
    /\ []C36_OneLateSend
    /\ [][C36_TruncatedEndsAtStopTime]_vars

\* test_retry_5xx_past_total_wait in small: under total_wait = 2.5 s the
\* second backoff is cut to the time left, the send called at stop_time
\* fails and its error ends the request with a retry to spare
C36_Witness ==
    /\ pc = "done"
    /\ config.total_wait = Some(2500)
    /\ statuses = <<500, 500, 500>>
    /\ Len(sleeps) = 2
    /\ sent_at[3] = stop_time[1]
    /\ sleeps[2] < backoff(config, 2, 0)
    /\ attempts = 3
    /\ result.kind = "PrettyHTTPError"

----------------------------------------------------------------------------
\* the pacing sleep is the one made when request() is called; no later
\* step of the request sleeps for pacing
C37_PacingOnce == ~C15_Starts => pacing' = pacing

\* before a retry send the request sleeps the Retrier's delay and no more,
\* however recent last_mutation is
C37_RetrySleepOnly ==
    pc = "sleep" =>
        /\ pc' = "send"
        /\ clock' = clock + decision[1]
        /\ sleeps' = Append(sleeps, decision[1])

\* a retry send of a mutating request is called when the send before it
\* has returned and the Retrier's delay has passed, be that less than
\* mutation_delay after that send or not
C37_RetrySpacing ==
    (pc = "send" /\ sends >= 1 /\ method \in MUTATING_METHODS) =>
        \E d \in SendDurations :
            clock - last_mutation[1] = d + sleeps[Len(sleeps)]

(* C37: the pacing sleep happens at most once per request() call, before    *)
(* its first send; the retry sends of a mutating request are spaced by the  *)
(* Retrier's delay only, so two consecutive sends of one mutating request   *)
(* can be closer than mutation_delay, e.g. backoff_factor * 0.1 apart after *)
(* the first failure.                                                       *)
C37_RetriesNotPaced ==
    /\ [][C37_PacingOnce]_vars
    /\ [][C37_RetrySleepOnly]_vars
    /\ []C37_RetrySpacing

\* the third request, a POST that slept 0.9 s for pacing, sends at 1.0 s
\* and, after a 500 and backoff(1) = 0.1 s, again at 1.1 s
C37_Witness ==
    /\ pc = "handle"
    /\ method = "POST"
    /\ budget = MaxRequests - 3
    /\ pacing = 900
    /\ sleeps = <<backoff(config, 1, 0)>>
    /\ sent_at = <<1000, 1100>>
    /\ last_mutation = Some(1100)

----------------------------------------------------------------------------
RECURSIVE C38_Retries(_)
\* the number of retry sleeps of the get() calls that have ended
C38_Retries(q) == IF q = <<>> THEN 0 ELSE Len(q[1]) + C38_Retries(Tail(q))

RECURSIVE C38_Slept(_)
\* the time they slept in all
C38_Slept(q) == IF q = <<>> THEN 0 ELSE C28_Sum(q[1]) + C38_Slept(Tail(q))

\* the get() of a page runs in a request() of its own: its Retrier counts
\* the failed sends of that page only, and its deadline is total_wait after
\* the call of that get()
C38_FreshPerPage ==
    pager.pc = "get" =>
        /\ pc = "send" => attempts = sends
        /\ pc \in {"sleep", "handle", "done"} => attempts \in {sends - 1, sends}
        /\ (pc # "idle" /\ sends >= 1) =>
              stop_time = IF config.total_wait = None THEN None
                          ELSE Some(sent_at[1] + config.total_wait[1])

\* the limits hold for each page, and so p times over for p pages
C38_LimitsPerPage ==
    /\ \A k \in 1..Len(pager.sleeps) :
          /\ Len(pager.sleeps[k]) <= config.retries
          /\ config.total_wait # None =>
                C28_Sum(pager.sleeps[k]) <= config.total_wait[1]
    /\ C38_Retries(pager.sleeps) <= Len(pager.sleeps) * config.retries
    /\ config.total_wait # None =>
          C38_Slept(pager.sleeps) <= Len(pager.sleeps) * config.total_wait[1]

(* C38: every page fetched by paginate() goes through its own request()     *)
(* call with a fresh Retrier: the retry count and the total_wait deadline   *)
(* apply per page, not to the pagination as a whole, so a pagination over p *)
(* pages can make up to p * retries retries and sleep up to p * total_wait. *)
C38_RetrierPerPage == C38_FreshPerPage /\ C38_LimitsPerPage

\* three pages under retries = 1 and total_wait = 5 s, each fetched at the
\* second send after a 403 with Retry-After: 7 and a sleep of 5 s: three
\* retries and 15 s of sleep in all
C38_Witness ==
    /\ pager.pc = "exhausted"
    /\ config.retries = 1
    /\ config.total_wait = Some(5000)
    /\ pager.sleeps = <<<<5000>>, <<5000>>, <<5000>>>>
    /\ C38_Retries(pager.sleeps) = 3 * config.retries
    /\ C38_Slept(pager.sleeps) = 3 * config.total_wait[1]

----------------------------------------------------------------------------
\* the 403 responses of the servers that carry a Retry-After header and the
\* signals of a primary rate limit
C39_Both ==
    { o \in AllOutcomes :
        /\ o.status_code = 403
        /\ "retry-after" \in DOMAIN o.headers
        /\ IsSubstring(RateLimitText, o.text)
        /\ HeaderGet(o.headers, "x-ratelimit-remaining") = Some(<<"0">>)
        /\ "x-ratelimit-reset" \in DOMAIN o.headers }

\* what the Retry-After header of such a response gives: n + 1 for the
\* integers 7 and 0, and 0 for the value that is not an integer
C39_FromRetryAfter(o) ==
    IF o.headers["retry-after"] = <<"7">> THEN 8000
    ELSE IF o.headers["retry-after"] = <<"0">> THEN 1000
    ELSE 0

(* C39: on a 403 that carries both a Retry-After header and the signals of  *)
(* a primary rate limit (body with "rate limit", x-ratelimit-remaining "0", *)
(* x-ratelimit-reset R) Retry-After takes precedence: the delay comes from  *)
(* Retry-After alone (with the floor of the backoff and the limit of the    *)
(* time left that every 403 has) and x-ratelimit-reset is ignored, also     *)
(* when R - now + 1 is larger.                                              *)
C39_RetryAfterPrecedence ==
    (Retrying /\ outcome \in C39_Both) =>
        /\ BackoffOfAttempts
        /\ decision = Some(CappedByTimeLeft(
               Max(C39_FromRetryAfter(outcome), backoffv[1])))
        /\ (/\ C8_UntilReset(outcome) > Max(C39_FromRetryAfter(outcome),
                                             backoffv[1])
            /\ stop_time # None =>
                   C8_UntilReset(outcome) <= stop_time[1] - clock)
              => decision[1] < C8_UntilReset(outcome)

\* Retry-After: 0 with a reset 10 s ahead and no deadline: the delay is the
\* 1 s of Retry-After, not the 11 s until the reset
C39_Witness ==
    /\ Retrying
    /\ outcome \in C39_Both
    /\ outcome.headers["retry-after"] = <<"0">>
    /\ stop_time = None
    /\ clock = 0
    /\ C8_UntilReset(outcome) = 11000
    /\ decision = Some(1000)

----------------------------------------------------------------------------
\* the last send was answered with an error status other than 403
C40_Not403 ==
    /\ outcome.kind = "response"
    /\ RaisesForStatus(outcome)
    /\ outcome.status_code # 403

\* such a response is retried when its status is in retry_statuses, with
\* the backoff whatever its headers and body; else it ends the request
C40_StatusAlone ==
    C40_Not403 =>
        IF outcome.status_code \in config.retry_statuses
        THEN /\ Retrying =>
                   /\ BackoffOfAttempts
                   /\ decision = Some(CappedByTimeLeft(backoffv[1]))
             /\ pc = "done" => PolicyStops /\ decision = None
        ELSE /\ pc \in {"handle", "done", "idle"}
             /\ pc \in {"done", "idle"} =>
                   /\ decision = None
                   /\ result = [kind |-> "PrettyHTTPError",
                                outcome |-> outcome, send |-> sends]
                   /\ Len(sleeps) = sends - 1

\* with the default retry_statuses a 429 is not retried
C40_Default429 ==
    (/\ config.retry_statuses = DefaultRetryStatuses
     /\ outcome.kind = "response"
     /\ outcome.status_code = 429)
        => ~Retrying

(* C40: the Retry-After and rate-limit handling applies to status 403 only: *)
(* a response with another status (e.g. 429) is retried only if that status *)
(* is in retry_statuses, and then with delay backoff(attempts) (while       *)
(* retries remain and the deadline is not reached, limited to the time      *)
(* left), its Retry-After and x-ratelimit headers and its body being        *)
(* ignored; with the default retry_statuses a 429 with Retry-After is not   *)
(* retried.                                                                 *)
C40_Only403 == C40_StatusAlone /\ C40_Default429

\* a 429 with Retry-After: 7 and "rate limit" in its body, retried because
\* 429 is in retry_statuses, with backoff(1) = 0.1 s and not 8 s
C40_Witness ==
    /\ Retrying
    /\ outcome.status_code = 429
    /\ outcome.headers["retry-after"] = <<"7">>
    /\ IsSubstring(RateLimitText, outcome.text)
    /\ 429 \in config.retry_statuses
    /\ attempts = 1
    /\ clock = 0
    /\ decision = Some(100)

====
